---- MODULE Spec2Model ----
(***************************************************************************)
(* Performia backend: evaluations, results, scoring and authentication.   *)
(* Rows of the relational tables are records; a table is a sequence whose *)
(* index is the autoincrement primary key.  Decimal columns NUMERIC(5,2)  *)
(* are integers counting hundredths (7.33 is 733).                        *)
(***************************************************************************)
EXTENDS Integers, Sequences, FiniteSets, TLC

VARIABLES usuarios, formularios, preguntas, evaluaciones, resultados, hoy, tokens, azar, sesiones, resp

vars == <<usuarios, formularios, preguntas, evaluaciones, resultados, hoy, tokens, azar, sesiones, resp>>

(***************************************************************************)
(* Bounds of the model                                                    *)
(***************************************************************************)
MaxEvaluaciones == 1
MaxResultados == 2
MaxAsignadas == 2

\* SQL NULL / Python None for numeric columns and for text columns
NULL == -1
NONE == "None"

\* HTTP status codes (fastapi.status)
HTTP_200_OK == 200
HTTP_400_BAD_REQUEST == 400
HTTP_401_UNAUTHORIZED == 401
HTTP_403_FORBIDDEN == 403
HTTP_404_NOT_FOUND == 404
HTTP_500_INTERNAL_SERVER_ERROR == 500

\* roles.nombre_rol by roles.id_rol
nombre_rol(id_rol) ==
    CASE id_rol = 1 -> "Administrador"
      [] id_rol = 2 -> "RRHH"
      [] id_rol = 3 -> "Manager"
      [] id_rol = 4 -> "Colaborador"
      [] OTHER -> "Director"

Indices(s) == 1..Len(s)

\* the response of the last request
Respuesta(op, st, n) == [op |-> op, status |-> st, n |-> n, creadas |-> {}, existentes |-> {}]


(***************************************************************************)
(* Tables                                                                 *)
(***************************************************************************)
Usuario(correo, password, id_rol, estado, confirmado, token) ==
    [existe |-> TRUE, correo |-> correo, password_hash |-> <<"hash", password>>,
     id_rol |-> id_rol, estado |-> estado, correo_confirmado |-> confirmado,
     token_confirmacion |-> token, ultimo_acceso |-> NULL, manager_id |-> NULL]

\* an Administrador, a Manager and a Colaborador that was set Inactivo
UsuariosIniciales ==
    << Usuario("a@x", "pa", 1, "Activo", TRUE, NULL),
       Usuario("b@x", "pb", 3, "Activo", TRUE, NULL),
       Usuario("c@x", "pc", 4, "Inactivo", TRUE, NULL) >>

\* the same with a second active Colaborador
UsuariosMasiva ==
    << Usuario("a@x", "pa", 1, "Activo", TRUE, NULL),
       Usuario("b@x", "pb", 4, "Activo", TRUE, NULL),
       Usuario("c@x", "pc", 4, "Inactivo", TRUE, NULL),
       Usuario("d@x", "pd", 4, "Activo", TRUE, NULL) >>

Formulario(estado) == [estado |-> estado]

FormulariosIniciales == << Formulario("Activo"), Formulario("Borrador") >>

Pregunta(id_formulario, peso, orden, requerido) ==
    [existe |-> TRUE, id_formulario |-> id_formulario, peso |-> peso, orden |-> orden,
     requerido |-> requerido]

PreguntasIniciales ==
    << Pregunta(1, 200, 1, TRUE), Pregunta(1, 100, 2, FALSE), Pregunta(2, 100, 1, TRUE) >>

\* an evaluation row created already En Curso
Evaluacion_en_curso(id_formulario, id_evaluado, id_evaluador, tipo, periodo, fecha_inicio, fecha_fin) ==
    [id_formulario |-> id_formulario, id_evaluado |-> id_evaluado, id_evaluador |-> id_evaluador,
     tipo_evaluacion |-> tipo, periodo |-> periodo, fecha_inicio |-> fecha_inicio,
     fecha_fin |-> fecha_fin, estado |-> "En Curso", puntaje_total |-> NULL,
     observaciones_generales |-> NONE]

Evaluacion(id_formulario, id_evaluado, id_evaluador, tipo, periodo, fecha_inicio, fecha_fin) ==
    [id_formulario |-> id_formulario, id_evaluado |-> id_evaluado, id_evaluador |-> id_evaluador,
     tipo_evaluacion |-> tipo, periodo |-> periodo, fecha_inicio |-> fecha_inicio,
     fecha_fin |-> fecha_fin, estado |-> "Pendiente", puntaje_total |-> NULL,
     observaciones_generales |-> NONE]

Resultado(id_evaluacion, id_pregunta, respuesta, puntaje, comentario) ==
    [id_evaluacion |-> id_evaluacion, id_pregunta |-> id_pregunta, respuesta |-> respuesta,
     puntaje |-> puntaje, comentario |-> comentario]

UsuarioExiste(id) == id \in Indices(usuarios) /\ usuarios[id].existe
PreguntaExiste(id) == id \in Indices(preguntas) /\ preguntas[id].existe

\* the authenticated callers of a protected route: existing users in estado Activo
Autenticados == {u \in Indices(usuarios) : usuarios[u].existe /\ usuarios[u].estado = "Activo"}

require_role(caller, allowed_roles) == nombre_rol(usuarios[caller].id_rol) \in allowed_roles

get_evaluacion_by_id(evaluacion_id) ==
    IF evaluacion_id \in Indices(evaluaciones) THEN evaluacion_id ELSE NULL

get_resultado_by_id(resultado_id) ==
    IF resultado_id \in Indices(resultados) THEN resultado_id ELSE NULL

\* the rows of resultados for an (evaluation, question) pair
FilasDe(evaluacion_id, id_pregunta) ==
    {r \in Indices(resultados) : /\ resultados[r].id_evaluacion = evaluacion_id
                                 /\ resultados[r].id_pregunta = id_pregunta}

(***************************************************************************)
(* Weighted score (evaluaciones/services.py, calcular_puntaje_evaluacion)  *)
(***************************************************************************)
Abs(x) == IF x < 0 THEN -x ELSE x

\* the quotient cut to 2 decimal places instead of rounded
Truncar(n, d) == n \div d

\* round(Decimal, 2): the quotient n/d, counted in hundredths, to the nearest
\* integer, ties to the even one (decimal.ROUND_HALF_EVEN)
RoundHalfEven(n, d) ==
    LET a == Abs(n)
        b == Abs(d)
        q == a \div b
        r == a % b
        m == IF 2 * r < b THEN q
             ELSE IF 2 * r > b THEN q + 1
             ELSE IF q % 2 = 0 THEN q ELSE q + 1
    IN IF (n < 0) = (d < 0) THEN m ELSE -m

\* the (Resultado, Pregunta) rows of the join, in primary-key order
FilasConPregunta(evaluacion_id) ==
    SelectSeq([i \in Indices(resultados) |-> i],
              LAMBDA r : /\ resultados[r].id_evaluacion = evaluacion_id
                         /\ PreguntaExiste(resultados[r].id_pregunta))

RECURSIVE SumaPonderada(_)
SumaPonderada(filas) ==
    IF filas = <<>> THEN [suma_ponderada |-> 0, suma_pesos |-> 0]
    ELSE LET resto == SumaPonderada(Tail(filas))
             resultado == resultados[Head(filas)]
             pregunta == preguntas[resultado.id_pregunta]
         IN IF resultado.puntaje # NULL
            THEN [suma_ponderada |-> resto.suma_ponderada + resultado.puntaje * pregunta.peso,
                  suma_pesos |-> resto.suma_pesos + pregunta.peso]
            ELSE resto

calcular_puntaje_evaluacion(evaluacion_id) ==
    LET filas == FilasConPregunta(evaluacion_id)
        s == SumaPonderada(filas)
    IN IF filas = <<>> THEN 0
       ELSE IF s.suma_pesos = 0 THEN 0
       ELSE RoundHalfEven(s.suma_ponderada, s.suma_pesos)

(***************************************************************************)
(* Evaluations (evaluaciones/routers.py and services.py)                  *)
(***************************************************************************)
SinCambios == UNCHANGED <<usuarios, formularios, preguntas, evaluaciones, resultados, hoy, tokens, azar, sesiones>>

Falla(op, st) == resp' = Respuesta(op, st, NULL) /\ SinCambios

\* services.iniciar_evaluacion(db, evaluacion, evaluador_id)
iniciar_evaluacion(request, evaluador_id) ==
    IF request.id_formulario \notin Indices(formularios)
    THEN Falla("iniciar", HTTP_404_NOT_FOUND)
    ELSE IF formularios[request.id_formulario].estado # "Activo"
    THEN Falla("iniciar", HTTP_400_BAD_REQUEST)
    ELSE IF ~UsuarioExiste(request.id_evaluado)
    THEN Falla("iniciar", HTTP_404_NOT_FOUND)
    ELSE /\ evaluaciones' = Append(evaluaciones,
                Evaluacion(request.id_formulario, request.id_evaluado, evaluador_id,
                           request.tipo_evaluacion, request.periodo,
                           request.fecha_inicio, request.fecha_fin))
         /\ resp' = Respuesta("iniciar", HTTP_200_OK, Len(evaluaciones) + 1)
         /\ UNCHANGED <<usuarios, formularios, preguntas, resultados, hoy, tokens, azar, sesiones>>

\* POST /evaluaciones/iniciar
router_iniciar_evaluacion(request, current_user) ==
    IF ~require_role(current_user, {"Administrador", "RRHH", "Manager"})
    THEN Falla("iniciar", HTTP_403_FORBIDDEN)
    ELSE iniciar_evaluacion(request, current_user)

\* what Query.first() may return for each question of a request: one of the
\* committed rows of the pair (the query has no ORDER BY), NULL when there is none.
\* The session has autoflush=False, so rows added in this request are not seen.
PrimerosPosibles(evaluacion_id) ==
    {f \in [Indices(preguntas) -> Indices(resultados) \cup {NULL}] :
        \A q \in Indices(preguntas) :
            IF FilasDe(evaluacion_id, q) = {} THEN f[q] = NULL
            ELSE f[q] \in FilasDe(evaluacion_id, q)}

\* the loop of responder_evaluacion over request.resultados: filas are the rows
\* loaded in the session (updated in place), nuevos the rows added with db.add
RECURSIVE registrar_resultados(_, _, _, _, _)
registrar_resultados(evaluacion_id, items, filas, nuevos, primero) ==
    IF items = <<>> THEN [ok |-> TRUE, filas |-> filas, nuevos |-> nuevos]
    ELSE LET resultado_data == Head(items)
             id_pregunta == resultado_data.id_pregunta
         IN IF ~(/\ PreguntaExiste(id_pregunta)
                 /\ preguntas[id_pregunta].id_formulario = evaluaciones[evaluacion_id].id_formulario)
            THEN [ok |-> FALSE, filas |-> filas, nuevos |-> nuevos]
            ELSE IF primero[id_pregunta] # NULL
            THEN registrar_resultados(evaluacion_id, Tail(items),
                     [filas EXCEPT ![primero[id_pregunta]].respuesta = resultado_data.respuesta,
                                   ![primero[id_pregunta]].puntaje = resultado_data.puntaje,
                                   ![primero[id_pregunta]].comentario = resultado_data.comentario],
                     nuevos, primero)
            ELSE registrar_resultados(evaluacion_id, Tail(items), filas,
                     Append(nuevos, Resultado(evaluacion_id, id_pregunta, resultado_data.respuesta,
                                              resultado_data.puntaje, resultado_data.comentario)),
                     primero)

\* responder_evaluacion committing each answer as the loop reaches it: the
\* answers listed before a rejected one stay
responder_evaluacion_parcial(evaluacion_id, request, evaluador_id) ==
    IF get_evaluacion_by_id(evaluacion_id) = NULL
    THEN Falla("responder", HTTP_404_NOT_FOUND)
    ELSE IF evaluaciones[evaluacion_id].id_evaluador # evaluador_id
    THEN Falla("responder", HTTP_403_FORBIDDEN)
    ELSE IF evaluaciones[evaluacion_id].estado \notin {"Pendiente", "En Curso"}
    THEN Falla("responder", HTTP_400_BAD_REQUEST)
    ELSE \E primero \in PrimerosPosibles(evaluacion_id) :
           LET r == registrar_resultados(evaluacion_id, request.resultados, resultados, <<>>, primero)
           IN IF ~r.ok
              THEN /\ resultados' = r.filas \o r.nuevos
                   /\ resp' = Respuesta("responder", HTTP_400_BAD_REQUEST, NULL)
                   /\ UNCHANGED <<usuarios, formularios, preguntas, evaluaciones, hoy, tokens, azar, sesiones>>
              ELSE /\ resultados' = r.filas \o r.nuevos
                   /\ evaluaciones' = [evaluaciones EXCEPT
                          ![evaluacion_id].estado = "En Curso",
                          ![evaluacion_id].observaciones_generales = request.observaciones_generales]
                   /\ resp' = Respuesta("responder", HTTP_200_OK, evaluacion_id)
                   /\ UNCHANGED <<usuarios, formularios, preguntas, hoy, tokens, azar, sesiones>>

\* POST /evaluaciones/{evaluacion_id}/responder, called with evaluador_id =
\* current_user.id_usuario.  Nothing is flushed before the commit at the end
\* (autoflush=False), and get_db closes the session of a request that raised,
\* which discards what the loop had changed
responder_evaluacion(evaluacion_id, request, evaluador_id) ==
    IF get_evaluacion_by_id(evaluacion_id) = NULL
    THEN Falla("responder", HTTP_404_NOT_FOUND)
    ELSE IF evaluaciones[evaluacion_id].id_evaluador # evaluador_id
    THEN Falla("responder", HTTP_403_FORBIDDEN)
    ELSE IF evaluaciones[evaluacion_id].estado \notin {"Pendiente", "En Curso"}
    THEN Falla("responder", HTTP_400_BAD_REQUEST)
    ELSE \E primero \in PrimerosPosibles(evaluacion_id) :
           LET r == registrar_resultados(evaluacion_id, request.resultados, resultados, <<>>, primero)
           IN IF ~r.ok
              THEN Falla("responder", HTTP_400_BAD_REQUEST)
              ELSE /\ resultados' = r.filas \o r.nuevos
                   /\ evaluaciones' = [evaluaciones EXCEPT
                          ![evaluacion_id].estado = "En Curso",
                          ![evaluacion_id].observaciones_generales = request.observaciones_generales]
                   /\ resp' = Respuesta("responder", HTTP_200_OK, evaluacion_id)
                   /\ UNCHANGED <<usuarios, formularios, preguntas, hoy, tokens, azar, sesiones>>

\* preguntas_faltantes without the filter on requerido
preguntas_faltantes_sin_requerido(evaluacion_id) ==
    {p \in Indices(preguntas) :
        /\ preguntas[p].existe
        /\ preguntas[p].id_formulario = evaluaciones[evaluacion_id].id_formulario
        /\ p \notin {resultados[r].id_pregunta :
                        r \in {x \in Indices(resultados) : resultados[x].id_evaluacion = evaluacion_id}}}

\* the required questions of the evaluation's form that have no Result
preguntas_faltantes(evaluacion_id) ==
    {p \in Indices(preguntas) :
        /\ preguntas[p].existe
        /\ preguntas[p].id_formulario = evaluaciones[evaluacion_id].id_formulario
        /\ preguntas[p].requerido
        /\ p \notin {resultados[r].id_pregunta :
                        r \in {x \in Indices(resultados) : resultados[x].id_evaluacion = evaluacion_id}}}

\* completar_evaluacion without the check of the caller against id_evaluador
completar_evaluacion_sin_permiso(evaluacion_id, evaluador_id) ==
    IF get_evaluacion_by_id(evaluacion_id) = NULL
    THEN Falla("completar", HTTP_404_NOT_FOUND)
    ELSE IF preguntas_faltantes(evaluacion_id) # {}
    THEN /\ resp' = Respuesta("completar", HTTP_400_BAD_REQUEST,
                              Cardinality(preguntas_faltantes(evaluacion_id)))
         /\ SinCambios
    ELSE /\ evaluaciones' = [evaluaciones EXCEPT
                ![evaluacion_id].estado = "Completada",
                ![evaluacion_id].puntaje_total = calcular_puntaje_evaluacion(evaluacion_id),
                ![evaluacion_id].fecha_fin = hoy]
         /\ resp' = Respuesta("completar", HTTP_200_OK, evaluacion_id)
         /\ UNCHANGED <<usuarios, formularios, preguntas, resultados, hoy, tokens, azar, sesiones>>

\* POST /evaluaciones/{evaluacion_id}/completar, called with evaluador_id = current_user.id_usuario
completar_evaluacion(evaluacion_id, evaluador_id) ==
    IF get_evaluacion_by_id(evaluacion_id) = NULL
    THEN Falla("completar", HTTP_404_NOT_FOUND)
    ELSE IF evaluaciones[evaluacion_id].id_evaluador # evaluador_id
    THEN Falla("completar", HTTP_403_FORBIDDEN)
    ELSE IF preguntas_faltantes(evaluacion_id) # {}
    THEN /\ resp' = Respuesta("completar", HTTP_400_BAD_REQUEST,
                              Cardinality(preguntas_faltantes(evaluacion_id)))
         /\ SinCambios
    ELSE /\ evaluaciones' = [evaluaciones EXCEPT
                ![evaluacion_id].estado = "Completada",
                ![evaluacion_id].puntaje_total = calcular_puntaje_evaluacion(evaluacion_id),
                ![evaluacion_id].fecha_fin = hoy]
         /\ resp' = Respuesta("completar", HTTP_200_OK, evaluacion_id)
         /\ UNCHANGED <<usuarios, formularios, preguntas, resultados, hoy, tokens, azar, sesiones>>

\* f"CANCELADA: {motivo}"
Cancelada(motivo) ==
    CASE motivo = "duplicada" -> "CANCELADA: duplicada"
      [] OTHER -> "CANCELADA: ..."

\* services.cancelar_evaluacion(db, evaluacion_id, motivo)
cancelar_evaluacion(evaluacion_id, motivo) ==
    IF get_evaluacion_by_id(evaluacion_id) = NULL
    THEN Falla("cancelar", HTTP_404_NOT_FOUND)
    ELSE IF evaluaciones[evaluacion_id].estado = "Completada"
    THEN Falla("cancelar", HTTP_400_BAD_REQUEST)
    ELSE /\ evaluaciones' = [evaluaciones EXCEPT
                ![evaluacion_id].estado = "Cancelada",
                ![evaluacion_id].observaciones_generales =
                    IF motivo # NONE /\ motivo # "" THEN Cancelada(motivo) ELSE @]
         /\ resp' = Respuesta("cancelar", HTTP_200_OK, evaluacion_id)
         /\ UNCHANGED <<usuarios, formularios, preguntas, resultados, hoy, tokens, azar, sesiones>>

\* POST /evaluaciones/{evaluacion_id}/cancelar
router_cancelar_evaluacion(evaluacion_id, motivo, current_user) ==
    IF ~require_role(current_user, {"Administrador", "RRHH"})
    THEN Falla("cancelar", HTTP_403_FORBIDDEN)
    ELSE cancelar_evaluacion(evaluacion_id, motivo)

\* update_resultado without the check of the parent evaluation's estado
update_resultado_sin_estado(resultado_id, update_data) ==
    IF get_resultado_by_id(resultado_id) = NULL
    THEN Falla("update_resultado", HTTP_404_NOT_FOUND)
    ELSE /\ resultados' = [resultados EXCEPT ![resultado_id] =
                [field \in DOMAIN @ |-> IF field \in DOMAIN update_data
                                        THEN update_data[field] ELSE @[field]]]
         /\ resp' = Respuesta("update_resultado", HTTP_200_OK, resultado_id)
         /\ UNCHANGED <<usuarios, formularios, preguntas, evaluaciones, hoy, tokens, azar, sesiones>>

\* PUT /evaluaciones/resultados/{resultado_id}; update_data is
\* resultado_update.model_dump(exclude_unset=True)
update_resultado(resultado_id, update_data) ==
    IF get_resultado_by_id(resultado_id) = NULL
    THEN Falla("update_resultado", HTTP_404_NOT_FOUND)
    ELSE IF evaluaciones[resultados[resultado_id].id_evaluacion].estado = "Completada"
    THEN Falla("update_resultado", HTTP_400_BAD_REQUEST)
    ELSE /\ resultados' = [resultados EXCEPT ![resultado_id] =
                [field \in DOMAIN @ |-> IF field \in DOMAIN update_data
                                        THEN update_data[field] ELSE @[field]]]
         /\ resp' = Respuesta("update_resultado", HTTP_200_OK, resultado_id)
         /\ UNCHANGED <<usuarios, formularios, preguntas, evaluaciones, hoy, tokens, azar, sesiones>>

\* PUT /evaluaciones/resultados/{resultado_id}: the route depends on
\* get_current_user and hands the request to the service without current_user
actualizar_resultado(resultado_id, resultado_update, current_user) ==
    update_resultado(resultado_id, resultado_update)

\* evaluacion_existente looking only for Pendiente evaluations
evaluacion_existente_solo_pendiente(request, id_usuario) ==
    {e \in Indices(evaluaciones) :
        /\ evaluaciones[e].id_formulario = request.id_formulario
        /\ evaluaciones[e].id_evaluado = id_usuario
        /\ evaluaciones[e].periodo = request.periodo
        /\ evaluaciones[e].estado = "Pendiente"}

\* the Pendiente / En Curso evaluation that makes asignar_evaluacion_masiva skip a user
evaluacion_existente(request, id_usuario) ==
    {e \in Indices(evaluaciones) :
        /\ evaluaciones[e].id_formulario = request.id_formulario
        /\ evaluaciones[e].id_evaluado = id_usuario
        /\ evaluaciones[e].periodo = request.periodo
        /\ evaluaciones[e].estado \in {"Pendiente", "En Curso"}}

Min(S) == CHOOSE x \in S : \A y \in S : x <= y

RECURSIVE EnOrden(_)
EnOrden(S) == IF S = {} THEN <<>> ELSE <<Min(S)>> \o EnOrden(S \ {Min(S)})

\* services.asignar_evaluacion_masiva(db, request)
asignar_evaluacion_masiva(request) ==
    IF request.id_formulario \notin Indices(formularios)
    THEN Falla("asignar_masiva", HTTP_404_NOT_FOUND)
    ELSE IF formularios[request.id_formulario].estado # "Activo"
    THEN Falla("asignar_masiva", HTTP_400_BAD_REQUEST)
    ELSE LET seleccion == {u \in Indices(usuarios) : /\ usuarios[u].existe
                                                     /\ usuarios[u].id_rol = request.rol_id
                                                     /\ usuarios[u].estado = "Activo"}
             evaluaciones_existentes == {u \in seleccion : evaluacion_existente(request, u) # {}}
             evaluaciones_creadas == seleccion \ evaluaciones_existentes
             orden == EnOrden(evaluaciones_creadas)
         IN IF seleccion = {}
            THEN Falla("asignar_masiva", HTTP_404_NOT_FOUND)
            ELSE /\ evaluaciones' = evaluaciones \o
                        [i \in Indices(orden) |->
                            Evaluacion(request.id_formulario, orden[i], orden[i],
                                       request.tipo_evaluacion, request.periodo,
                                       hoy, hoy + request.dias_plazo)]
                 /\ resp' = [op |-> "asignar_masiva", status |-> HTTP_200_OK,
                             n |-> Cardinality(seleccion),
                             creadas |-> evaluaciones_creadas,
                             existentes |-> evaluaciones_existentes]
                 /\ UNCHANGED <<usuarios, formularios, preguntas, resultados, hoy, tokens, azar, sesiones>>

\* POST /evaluaciones/asignar-masiva
router_asignar_evaluacion_masiva(request, current_user) ==
    IF ~require_role(current_user, {"Administrador", "RRHH"})
    THEN Falla("asignar_masiva", HTTP_403_FORBIDDEN)
    ELSE asignar_evaluacion_masiva(request)

(***************************************************************************)
(* Specification Spec: the life cycle of evaluations and their results    *)
(***************************************************************************)
IniciarRequest(id_formulario, id_evaluado) ==
    [id_formulario |-> id_formulario, id_evaluado |-> id_evaluado, tipo_evaluacion |-> "Manager",
     periodo |-> "2025", fecha_inicio |-> 1, fecha_fin |-> 22]

\* the active form, a draft form, a missing form, a missing evaluado
IniciarRequests ==
    {IniciarRequest(1, 2), IniciarRequest(2, 2), IniciarRequest(3, 2), IniciarRequest(1, 9)}

Answer(id_pregunta, puntaje) ==
    [id_pregunta |-> id_pregunta, respuesta |-> NONE, puntaje |-> puntaje, comentario |-> NONE]

\* answer lists: empty, one answer, the same question twice, two questions,
\* a question of another form alone and after a valid answer
AnswerLists ==
    { <<>>,
      <<Answer(1, 800)>>,
      <<Answer(1, 300), Answer(1, 800)>>,
      <<Answer(1, 800), Answer(2, 300)>>,
      <<Answer(3, 300)>>,
      <<Answer(1, 800), Answer(3, 300)>> }

ResponderRequests == [resultados : AnswerLists, observaciones_generales : {"obs"}]

ResultadoUpdates == {[puntaje |-> 800]}

Init ==
    /\ usuarios = UsuariosIniciales
    /\ formularios = FormulariosIniciales
    /\ preguntas = PreguntasIniciales
    /\ evaluaciones = <<>>
    /\ resultados = <<>>
    /\ hoy = 1
    /\ tokens = {}
    /\ azar = 0
    /\ sesiones = <<>>
    /\ resp = Respuesta("init", HTTP_200_OK, NULL)

Iniciar ==
    \E caller \in Autenticados, request \in IniciarRequests :
        /\ router_iniciar_evaluacion(request, caller)
        /\ Len(evaluaciones') <= MaxEvaluaciones

Responder ==
    \E caller \in Autenticados, evaluacion_id \in 1..(Len(evaluaciones) + 1), request \in ResponderRequests :
        /\ responder_evaluacion(evaluacion_id, request, caller)
        /\ Len(resultados') <= MaxResultados

Completar ==
    \E caller \in Autenticados, evaluacion_id \in 1..(Len(evaluaciones) + 1) :
        completar_evaluacion(evaluacion_id, caller)

Cancelar ==
    \E caller \in Autenticados, evaluacion_id \in 1..(Len(evaluaciones) + 1), motivo \in {"duplicada"} :
        router_cancelar_evaluacion(evaluacion_id, motivo, caller)

ActualizarResultado ==
    \E caller \in Autenticados, resultado_id \in 1..(Len(resultados) + 1), update_data \in ResultadoUpdates :
        actualizar_resultado(resultado_id, update_data, caller)

Next ==
    \/ Iniciar
    \/ Responder
    \/ Completar
    \/ Cancelar
    \/ ActualizarResultado

Spec == Init /\ [][Next]_vars

(***************************************************************************)
(* Specification SpecMasiva: mass assignment next to the life cycle       *)
(***************************************************************************)
MasivaRequest(id_formulario, rol_id, periodo) ==
    [id_formulario |-> id_formulario, rol_id |-> rol_id, periodo |-> periodo,
     tipo_evaluacion |-> "Autoevaluacion", dias_plazo |-> 21]

\* the Colaborador role in two periods, the Administrador role, a draft form,
\* a missing form, a role without users
MasivaRequests ==
    {MasivaRequest(1, 4, "2025"), MasivaRequest(1, 4, "2026"), MasivaRequest(1, 1, "2025"),
     MasivaRequest(2, 4, "2025"), MasivaRequest(3, 4, "2025"), MasivaRequest(1, 5, "2025")}

IniciarRequestsMasiva ==
    [id_formulario : {1}, id_evaluado : {2}, tipo_evaluacion : {"Manager"},
     periodo : {"2025"}, fecha_inicio : {1}, fecha_fin : {22}]

ResponderRequestsMasiva ==
    [resultados : {<<>>, <<Answer(1, 300)>>}, observaciones_generales : {NONE}]

InitMasiva ==
    /\ usuarios = UsuariosMasiva
    /\ formularios = FormulariosIniciales
    /\ preguntas = PreguntasIniciales
    /\ evaluaciones = <<>>
    /\ resultados = <<>>
    /\ hoy = 1
    /\ tokens = {}
    /\ azar = 0
    /\ sesiones = <<>>
    /\ resp = Respuesta("init", HTTP_200_OK, NULL)

AsignarMasiva ==
    \E caller \in Autenticados, request \in MasivaRequests :
        /\ router_asignar_evaluacion_masiva(request, caller)
        /\ Len(evaluaciones') <= MaxAsignadas

IniciarM ==
    \E caller \in Autenticados, request \in IniciarRequestsMasiva :
        /\ router_iniciar_evaluacion(request, caller)
        /\ Len(evaluaciones') <= MaxAsignadas

ResponderM ==
    \E evaluacion_id \in Indices(evaluaciones), request \in ResponderRequestsMasiva :
        /\ responder_evaluacion(evaluacion_id, request, evaluaciones[evaluacion_id].id_evaluador)

CancelarM ==
    \E evaluacion_id \in Indices(evaluaciones) : router_cancelar_evaluacion(evaluacion_id, NONE, 1)

NextMasiva ==
    \/ AsignarMasiva
    \/ IniciarM
    \/ ResponderM
    \/ CancelarM

SpecMasiva == InitMasiva /\ [][NextMasiva]_vars

(***************************************************************************)
(* Specification SpecPuntaje: the weighted score over drawn results       *)
(***************************************************************************)
MaxFilas == 2

\* weights and scores in hundredths: 0.00 1.00 2.00 3.00 5.00 and 0.00 3.00 6.00 8.00
PesosPuntaje == {0, 100, 200, 300, 500}
PuntajesPuntaje == {NULL, 0, 300, 600, 800}

FilasPuntaje ==
    UNION {[1..k -> {Resultado(1, q, NONE, p, NONE) : q \in {1, 2}, p \in PuntajesPuntaje}] :
              k \in 0..MaxFilas}

InitPuntaje ==
    /\ usuarios = UsuariosIniciales
    /\ formularios = FormulariosIniciales
    /\ \E w1 \in PesosPuntaje, w2 \in PesosPuntaje :
          preguntas = << Pregunta(1, w1, 1, FALSE), Pregunta(1, w2, 2, FALSE) >>
    /\ evaluaciones = << [Evaluacion(1, 2, 1, "Manager", "2025", 1, 22) EXCEPT !.estado = "En Curso"] >>
    /\ resultados \in FilasPuntaje
    /\ hoy = 1
    /\ tokens = {}
    /\ azar = 0
    /\ sesiones = <<>>
    /\ resp = Respuesta("init", HTTP_200_OK, NULL)

CompletarP == completar_evaluacion(1, 1)

NextPuntaje == CompletarP

SpecPuntaje == InitPuntaje /\ [][NextPuntaje]_vars

(***************************************************************************)
(* Properties of the evaluation life cycle                                *)
(***************************************************************************)
ResultadosDe(evaluacion_id) ==
    {r \in Indices(resultados) : resultados[r].id_evaluacion = evaluacion_id}

\* the evaluation and its Results are what they were before the request
Intacta(evaluacion_id) ==
    /\ evaluaciones'[evaluacion_id] = evaluaciones[evaluacion_id]
    /\ Len(resultados') = Len(resultados)
    /\ \A r \in ResultadosDe(evaluacion_id) : resultados'[r] = resultados[r]

\* C1 (as amended): once estado is Completada, every responder_evaluacion,
\* cancelar_evaluacion and update_resultado call on the evaluation (or one of its
\* Results) is rejected and leaves the evaluation and its Results unchanged; the
\* error is 400, except that responder_evaluacion called by someone other than the
\* evaluation's id_evaluador is rejected with 403.
C1_CompletadaRechaza ==
    [][/\ resp'.op = "responder" =>
             \A e \in Indices(evaluaciones), caller \in Indices(usuarios), request \in ResponderRequests :
                 (evaluaciones[e].estado = "Completada" /\ responder_evaluacion(e, request, caller)) =>
                     /\ resp'.status = IF caller = evaluaciones[e].id_evaluador
                                       THEN HTTP_400_BAD_REQUEST ELSE HTTP_403_FORBIDDEN
                     /\ Intacta(e)
       /\ resp'.op = "cancelar" =>
             \A e \in Indices(evaluaciones), motivo \in {NONE, "duplicada"} :
                 (evaluaciones[e].estado = "Completada" /\ cancelar_evaluacion(e, motivo)) =>
                     resp'.status = HTTP_400_BAD_REQUEST /\ Intacta(e)
       /\ resp'.op = "update_resultado" =>
             \A r \in Indices(resultados), update_data \in ResultadoUpdates :
                 (/\ evaluaciones[resultados[r].id_evaluacion].estado = "Completada"
                  /\ update_resultado(r, update_data)) =>
                     resp'.status = HTTP_400_BAD_REQUEST /\ Intacta(resultados[r].id_evaluacion)]_vars

\* C1 witness: the evaluador's responder call on a Completada evaluation got 400
C1_Witness ==
    /\ resp.op = "responder"
    /\ resp.status = HTTP_400_BAD_REQUEST
    /\ \E e \in Indices(evaluaciones) :
          evaluaciones[e].estado = "Completada" /\ ResultadosDe(e) # {}

\* C1 (as stated): once estado is Completada, every responder_evaluacion,
\* cancelar_evaluacion and update_resultado call is rejected with 400 and leaves
\* the evaluation and its Results unchanged.
C1_Original ==
    [][/\ resp'.op = "responder" =>
             \A e \in Indices(evaluaciones), caller \in Indices(usuarios), request \in ResponderRequests :
                 (evaluaciones[e].estado = "Completada" /\ responder_evaluacion(e, request, caller)) =>
                     /\ resp'.status = HTTP_400_BAD_REQUEST
                     /\ Intacta(e)
       /\ resp'.op = "cancelar" =>
             \A e \in Indices(evaluaciones), motivo \in {NONE, "duplicada"} :
                 (evaluaciones[e].estado = "Completada" /\ cancelar_evaluacion(e, motivo)) =>
                     resp'.status = HTTP_400_BAD_REQUEST /\ Intacta(e)
       /\ resp'.op = "update_resultado" =>
             \A r \in Indices(resultados), update_data \in ResultadoUpdates :
                 (/\ evaluaciones[resultados[r].id_evaluacion].estado = "Completada"
                  /\ update_resultado(r, update_data)) =>
                     resp'.status = HTTP_400_BAD_REQUEST /\ Intacta(resultados[r].id_evaluacion)]_vars

\* C2 (as stated): estado Completada is entered only from Pendiente or En Curso,
\* and once estado is Completada or Cancelada no operation changes it again.
C2_Terminal ==
    [][\A e \in Indices(evaluaciones) :
          /\ evaluaciones[e].estado \in {"Completada", "Cancelada"} =>
                evaluaciones'[e].estado = evaluaciones[e].estado
          /\ (evaluaciones[e].estado # "Completada" /\ evaluaciones'[e].estado = "Completada") =>
                evaluaciones[e].estado \in {"Pendiente", "En Curso"}]_vars

\* the required questions of the evaluation's form without a Result on it
RequeridasSinResultado(e) ==
    {p \in Indices(preguntas) : /\ preguntas[p].existe
                                /\ preguntas[p].id_formulario = evaluaciones[e].id_formulario
                                /\ preguntas[p].requerido
                                /\ FilasDe(e, p) = {}}

\* C3 (as amended): completar_evaluacion succeeds only if every required question
\* of the evaluation's form has a Result on it; otherwise the call fails and
\* estado, puntaje_total and fecha_fin are unchanged, and when the caller is the
\* evaluation's id_evaluador the failure is a 400 naming the number of missing
\* required questions (any other caller gets 403).
C3_CompletarRequeridas ==
    [][resp'.op = "completar" =>
          \A e \in Indices(evaluaciones), caller \in Indices(usuarios) :
              completar_evaluacion(e, caller) =>
                  /\ resp'.status = HTTP_200_OK => RequeridasSinResultado(e) = {}
                  /\ RequeridasSinResultado(e) # {} =>
                          /\ evaluaciones'[e] = evaluaciones[e]
                          /\ resp'.status = IF caller = evaluaciones[e].id_evaluador
                                            THEN HTTP_400_BAD_REQUEST ELSE HTTP_403_FORBIDDEN
                          /\ caller = evaluaciones[e].id_evaluador =>
                                resp'.n = Cardinality(RequeridasSinResultado(e))]_vars

\* C3 witness: the evaluador's completar call failed with 400 naming one missing
\* required question, after an optional question was answered
C3_Witness ==
    /\ resp.op = "completar"
    /\ resp.status = HTTP_400_BAD_REQUEST
    /\ resp.n = 1
    /\ \E e \in Indices(evaluaciones) :
          /\ evaluaciones[e].estado = "En Curso"
          /\ RequeridasSinResultado(e) # {}

\* C3 (as stated): completar_evaluacion succeeds only if every required question
\* has a Result; otherwise it fails with a 400 naming the number of missing required
\* questions and estado, puntaje_total and fecha_fin are unchanged.
C3_Original ==
    [][resp'.op = "completar" =>
          \A e \in Indices(evaluaciones), caller \in Indices(usuarios) :
              completar_evaluacion(e, caller) =>
                  /\ resp'.status = HTTP_200_OK => RequeridasSinResultado(e) = {}
                  /\ RequeridasSinResultado(e) # {} =>
                          /\ evaluaciones'[e] = evaluaciones[e]
                          /\ resp'.status = HTTP_400_BAD_REQUEST
                          /\ resp'.n = Cardinality(RequeridasSinResultado(e))]_vars

\* C4: for every evaluation and every caller whose id differs from its
\* id_evaluador, responder_evaluacion and completar_evaluacion fail with 403 and
\* change neither the evaluation nor its Results, whatever the caller's role.
\* (Each implication "the call made this step => it was refused" is written as
\* the disjunction "refused, or the call did not make this step".)
C4_SoloEvaluador ==
    [][/\ resp'.op = "responder" =>
             \A e \in Indices(evaluaciones), caller \in Indices(usuarios), request \in ResponderRequests :
                 \/ caller = evaluaciones[e].id_evaluador
                 \/ resp'.status = HTTP_403_FORBIDDEN /\ Intacta(e)
                 \/ ~responder_evaluacion(e, request, caller)
       /\ resp'.op = "completar" =>
             \A e \in Indices(evaluaciones), caller \in Indices(usuarios) :
                 \/ caller = evaluaciones[e].id_evaluador
                 \/ resp'.status = HTTP_403_FORBIDDEN /\ Intacta(e)
                 \/ ~completar_evaluacion(e, caller)]_vars

\* C4 witness: an Administrador who is not the evaluador got 403 on an evaluation
\* that had every required answer
C4_Witness ==
    /\ resp.op \in {"responder", "completar"}
    /\ resp.status = HTTP_403_FORBIDDEN
    /\ \E e \in Indices(evaluaciones) :
          /\ evaluaciones[e].id_evaluador = 2
          /\ evaluaciones[e].estado = "En Curso"
          /\ RequeridasSinResultado(e) = {}


\* C5: every evaluation created by iniciar_evaluacion or asignar_evaluacion_masiva
\* starts in estado Pendiente, and every successful responder_evaluacion call
\* (from Pendiente or En Curso, an empty answer list included) leaves the
\* evaluation in estado En Curso.
C5_PendienteEnCurso ==
    [][/\ (resp'.op = "iniciar" /\ resp'.status = HTTP_200_OK) =>
             \A request \in IniciarRequestsMasiva, caller \in Indices(usuarios) :
                 iniciar_evaluacion(request, caller) =>
                     /\ Len(evaluaciones') = Len(evaluaciones) + 1
                     /\ evaluaciones'[Len(evaluaciones')].estado = "Pendiente"
       /\ (resp'.op = "asignar_masiva" /\ resp'.status = HTTP_200_OK) =>
             \A request \in MasivaRequests :
                 asignar_evaluacion_masiva(request) =>
                     \A e \in Indices(evaluaciones') \ Indices(evaluaciones) :
                         evaluaciones'[e].estado = "Pendiente"
       /\ (resp'.op = "responder" /\ resp'.status = HTTP_200_OK) =>
             \A e \in Indices(evaluaciones), request \in ResponderRequestsMasiva,
                caller \in Indices(usuarios) :
                 responder_evaluacion(e, request, caller) =>
                     /\ evaluaciones[e].estado \in {"Pendiente", "En Curso"}
                     /\ evaluaciones'[e].estado = "En Curso"]_vars

\* C5 witness: an evaluation created by the mass assignment is En Curso after a
\* successful responder call with an empty answer list
C5_Witness ==
    /\ resp.op = "responder"
    /\ resp.status = HTTP_200_OK
    /\ evaluaciones[resp.n].tipo_evaluacion = "Autoevaluacion"
    /\ evaluaciones[resp.n].estado = "En Curso"
    /\ ResultadosDe(resp.n) = {}

\* the puntaje of the last answer a list gives for a question
RECURSIVE UltimoPuntaje(_, _)
UltimoPuntaje(items, p) ==
    IF items[Len(items)].id_pregunta = p THEN items[Len(items)].puntaje
    ELSE UltimoPuntaje(SubSeq(items, 1, Len(items) - 1), p)

\* C7 (as stated): after a successful responder_evaluacion call, for any answer
\* list (one naming the same id_pregunta more than once included), there is at most
\* one Result row for each (id_evaluacion, id_pregunta) pair and it holds the most
\* recently submitted answer.
C7_Upsert ==
    [][(resp'.op = "responder" /\ resp'.status = HTTP_200_OK) =>
          \A e \in Indices(evaluaciones), request \in ResponderRequests, caller \in Indices(usuarios) :
              responder_evaluacion(e, request, caller) =>
                  \A p \in Indices(preguntas) :
                      /\ Cardinality(FilasDe(e, p)') <= 1
                      /\ (\E i \in Indices(request.resultados) : request.resultados[i].id_pregunta = p) =>
                            \A r \in FilasDe(e, p)' :
                                resultados'[r].puntaje = UltimoPuntaje(request.resultados, p)]_vars

\* a Pendiente or En Curso evaluation of the user as evaluado for the form and period
TieneVigente(evs, request, u) ==
    \E e \in Indices(evs) : /\ evs[e].id_formulario = request.id_formulario
                            /\ evs[e].periodo = request.periodo
                            /\ evs[e].id_evaluado = u
                            /\ evs[e].estado \in {"Pendiente", "En Curso"}

UsuariosDelRol(rol_id) ==
    {u \in Indices(usuarios) : /\ usuarios[u].existe
                               /\ usuarios[u].id_rol = rol_id
                               /\ usuarios[u].estado = "Activo"}

\* C8: when asignar_evaluacion_masiva runs for a (form, period, role) and a user
\* of the role already has a Pendiente or En Curso evaluation as evaluado for that
\* form and period, no evaluation is created for the user, who is reported in
\* evaluaciones_existentes and not in evaluaciones_creadas; after the run every
\* user of the role has such an evaluation, so the same assignment run again
\* creates nothing.
C8_MasivaIdempotente ==
    [][(resp'.op = "asignar_masiva" /\ resp'.status = HTTP_200_OK) =>
          \A request \in MasivaRequests :
              asignar_evaluacion_masiva(request) =>
                  /\ \A u \in UsuariosDelRol(request.rol_id) :
                        TieneVigente(evaluaciones, request, u) =>
                            /\ u \in resp'.existentes
                            /\ u \notin resp'.creadas
                            /\ \A e \in Indices(evaluaciones') \ Indices(evaluaciones) :
                                  evaluaciones'[e].id_evaluado # u
                  /\ \A u \in UsuariosDelRol(request.rol_id) :
                        TieneVigente(evaluaciones', request, u)
                  /\ \A e \in Indices(evaluaciones) : evaluaciones'[e] = evaluaciones[e]
                  /\ Len(evaluaciones') = Len(evaluaciones) + Cardinality(resp'.creadas)]_vars

\* C8 witness: a second run that created nothing, every user of the role being
\* reported as existing, one of them with an evaluation already En Curso
C8_Witness ==
    /\ resp.op = "asignar_masiva"
    /\ resp.status = HTTP_200_OK
    /\ resp.creadas = {}
    /\ Cardinality(resp.existentes) = 2
    /\ \E e \in Indices(evaluaciones) :
          evaluaciones[e].estado = "En Curso" /\ evaluaciones[e].id_evaluado \in resp.existentes

(***************************************************************************)
(* Authentication (auth/routers.py, auth/services.py, auth/dependencies.py,*)
(* users/routers.py).  app/core/security.py is modelled from its contract: *)
(* a hash that verifies exactly the password it was made from, and a signed*)
(* token that decodes to its claims exactly when the signature is valid.   *)
(***************************************************************************)
HTTP_201_CREATED == 201

get_password_hash(password) == <<"hash", password>>

verify_password(plain_password, hashed_password) ==
    hashed_password = get_password_hash(plain_password)

create_access_token(data) == [firmado |-> TRUE, sub |-> data.sub]

\* the claims of the token, ok = FALSE standing for the None of a failed decode
decode_access_token(token) ==
    IF token.firmado THEN [ok |-> TRUE, sub |-> token.sub] ELSE [ok |-> FALSE, sub |-> NULL]

\* Query.first() on usuarios filtered by correo (the column is unique)
usuario_por_correo(correo) ==
    LET filas == {u \in Indices(usuarios) : usuarios[u].existe /\ usuarios[u].correo = correo}
    IN IF filas = {} THEN NULL ELSE Min(filas)

\* the user authenticate_user returns (NULL for None); the caller applies its
\* commit of ultimo_acceso
authenticate_user(correo, password) ==
    LET usuario == usuario_por_correo(correo)
    IN IF usuario = NULL THEN NULL
       ELSE IF ~verify_password(password, usuarios[usuario].password_hash) THEN NULL
       ELSE usuario

create_user_token(usuario) == create_access_token([sub |-> usuario])

\* login without the check of correo_confirmado
login_sin_confirmacion(credentials) ==
    LET usuario == authenticate_user(credentials.correo, credentials.password)
        sellados == [usuarios EXCEPT ![usuario].ultimo_acceso = hoy]
    IN IF usuario = NULL
       THEN Falla("login", HTTP_401_UNAUTHORIZED)
       ELSE IF usuarios[usuario].estado # "Activo"
       THEN /\ usuarios' = sellados
            /\ resp' = Respuesta("login", HTTP_403_FORBIDDEN, NULL)
            /\ UNCHANGED <<formularios, preguntas, evaluaciones, resultados, hoy, tokens, azar, sesiones>>
       ELSE /\ usuarios' = sellados
            /\ tokens' = tokens \cup {create_user_token(usuario)}
            /\ resp' = Respuesta("login", HTTP_200_OK, usuario)
            /\ UNCHANGED <<formularios, preguntas, evaluaciones, resultados, hoy, azar, sesiones>>

\* POST /auth/login
login(credentials) ==
    LET usuario == authenticate_user(credentials.correo, credentials.password)
        sellados == [usuarios EXCEPT ![usuario].ultimo_acceso = hoy]
    IN IF usuario = NULL
       THEN Falla("login", HTTP_401_UNAUTHORIZED)
       ELSE IF usuarios[usuario].estado # "Activo"
       THEN /\ usuarios' = sellados
            /\ resp' = Respuesta("login", HTTP_403_FORBIDDEN, NULL)
            /\ UNCHANGED <<formularios, preguntas, evaluaciones, resultados, hoy, tokens, azar, sesiones>>
       ELSE IF ~usuarios[usuario].correo_confirmado
       THEN /\ usuarios' = sellados
            /\ resp' = Respuesta("login", HTTP_403_FORBIDDEN, NULL)
            /\ UNCHANGED <<formularios, preguntas, evaluaciones, resultados, hoy, tokens, azar, sesiones>>
       ELSE /\ usuarios' = sellados
            /\ tokens' = tokens \cup {create_user_token(usuario)}
            /\ resp' = Respuesta("login", HTTP_200_OK, usuario)
            /\ UNCHANGED <<formularios, preguntas, evaluaciones, resultados, hoy, azar, sesiones>>

check_email_exists(email) == usuario_por_correo(email) # NULL

\* the row create_user inserts; azar + 1 is the fresh secrets.token_urlsafe(32)
create_user(user_data) ==
    [Usuario(user_data.email, user_data.password, user_data.id_rol, "Activo", FALSE, azar + 1)
        EXCEPT !.password_hash = get_password_hash(user_data.password)]

\* POST /auth/register
register(user_data) ==
    IF check_email_exists(user_data.email)
    THEN Falla("register", HTTP_400_BAD_REQUEST)
    ELSE /\ usuarios' = Append(usuarios, create_user(user_data))
         /\ azar' = azar + 1
         /\ resp' = Respuesta("register", HTTP_201_CREATED, Len(usuarios) + 1)
         /\ UNCHANGED <<formularios, preguntas, evaluaciones, resultados, hoy, tokens, sesiones>>

\* the user confirm_user_email finds by token (NULL for None)
confirm_user_email(token) ==
    LET filas == {u \in Indices(usuarios) :
                     usuarios[u].existe /\ usuarios[u].token_confirmacion = token}
    IN IF filas = {} THEN NULL ELSE Min(filas)

\* POST /auth/confirmar-correo
confirmar_correo(token) ==
    LET usuario == confirm_user_email(token)
    IN IF usuario = NULL
       THEN Falla("confirmar_correo", HTTP_400_BAD_REQUEST)
       ELSE /\ usuarios' = [usuarios EXCEPT ![usuario].estado = "Activo",
                                            ![usuario].token_confirmacion = NULL,
                                            ![usuario].correo_confirmado = TRUE]
            /\ resp' = Respuesta("confirmar_correo", HTTP_200_OK, usuario)
            /\ UNCHANGED <<formularios, preguntas, evaluaciones, resultados, hoy, tokens, azar, sesiones>>


\* get_current_user without the check of the user's estado
get_current_user_sin_estado(token) ==
    LET payload == decode_access_token(token)
        user_id == payload.sub
    IN IF ~payload.ok
       THEN [status |-> HTTP_401_UNAUTHORIZED, usuario |-> NULL]
       ELSE IF user_id = NULL
       THEN [status |-> HTTP_401_UNAUTHORIZED, usuario |-> NULL]
       ELSE IF ~UsuarioExiste(user_id)
       THEN [status |-> HTTP_401_UNAUTHORIZED, usuario |-> NULL]
       ELSE [status |-> HTTP_200_OK, usuario |-> user_id]

\* the dependency of every protected route: the status it raises (200 when it
\* returns) and the user it returns
get_current_user(token) ==
    LET payload == decode_access_token(token)
        user_id == payload.sub
    IN IF ~payload.ok
       THEN [status |-> HTTP_401_UNAUTHORIZED, usuario |-> NULL]
       ELSE IF user_id = NULL
       THEN [status |-> HTTP_401_UNAUTHORIZED, usuario |-> NULL]
       ELSE IF ~UsuarioExiste(user_id)
       THEN [status |-> HTTP_401_UNAUTHORIZED, usuario |-> NULL]
       ELSE IF usuarios[user_id].estado # "Activo"
       THEN [status |-> HTTP_403_FORBIDDEN, usuario |-> NULL]
       ELSE [status |-> HTTP_200_OK, usuario |-> user_id]

\* GET /auth/validar-token
validar_token(token) ==
    LET current_user == get_current_user(token)
    IN IF current_user.status # HTTP_200_OK
       THEN Falla("validar_token", current_user.status)
       ELSE resp' = Respuesta("validar_token", HTTP_200_OK, current_user.usuario) /\ SinCambios

\* PUT /usuarios/{user_id}; user_data is user_data.dict(exclude_unset=True)
update_user(token, user_id, user_data) ==
    LET current_user == get_current_user(token)
    IN IF current_user.status # HTTP_200_OK
       THEN Falla("update_user", current_user.status)
       ELSE IF ~UsuarioExiste(user_id)
       THEN Falla("update_user", HTTP_404_NOT_FOUND)
       ELSE IF /\ current_user.usuario # user_id
               /\ nombre_rol(usuarios[current_user.usuario].id_rol) # "Administrador"
       THEN Falla("update_user", HTTP_403_FORBIDDEN)
       ELSE /\ usuarios' = [usuarios EXCEPT ![user_id] =
                   [field \in DOMAIN @ |-> IF field \in DOMAIN user_data
                                           THEN user_data[field] ELSE @[field]]]
            /\ resp' = Respuesta("update_user", HTTP_200_OK, user_id)
            /\ UNCHANGED <<formularios, preguntas, evaluaciones, resultados, hoy, tokens, azar, sesiones>>

\* the evaluations whose id_evaluado or id_evaluador is the user
EvaluacionesDelUsuario(user_id) ==
    {e \in Indices(evaluaciones) : \/ evaluaciones[e].id_evaluado = user_id
                                    \/ evaluaciones[e].id_evaluador = user_id}

\* DELETE /usuarios/{user_id}: db.delete removes the row.  The flush first
\* sets to NULL the foreign key of the rows of the user's relationships (none
\* of them cascades): manager_id of the subordinados is nullable, id_evaluado
\* and id_evaluador are NOT NULL, so a referenced user ends in the IntegrityError
\* that the global handler answers with 500
delete_user(token, user_id) ==
    LET current_user == get_current_user(token)
    IN IF current_user.status # HTTP_200_OK
       THEN Falla("delete_user", current_user.status)
       ELSE IF ~require_role(current_user.usuario, {"Administrador"})
       THEN Falla("delete_user", HTTP_403_FORBIDDEN)
       ELSE IF ~UsuarioExiste(user_id)
       THEN Falla("delete_user", HTTP_404_NOT_FOUND)
       ELSE IF EvaluacionesDelUsuario(user_id) # {}
       THEN Falla("delete_user", HTTP_500_INTERNAL_SERVER_ERROR)
       ELSE /\ usuarios' = [u \in Indices(usuarios) |->
                   IF u = user_id THEN [usuarios[u] EXCEPT !.existe = FALSE]
                   ELSE IF usuarios[u].existe /\ usuarios[u].manager_id = user_id
                   THEN [usuarios[u] EXCEPT !.manager_id = NULL]
                   ELSE usuarios[u]]
            /\ resp' = Respuesta("delete_user", HTTP_200_OK, user_id)
            /\ UNCHANGED <<formularios, preguntas, evaluaciones, resultados, hoy, tokens, azar, sesiones>>

(***************************************************************************)
(* Specification SpecAuth: registration, confirmation, login and the      *)
(* protected user routes                                                  *)
(***************************************************************************)
MaxUsuarios == 2

UsuariosAuth == << Usuario("a@x", "pa", 1, "Activo", TRUE, NULL) >>

RegisterRequests == [email : {"a@x", "b@x"}, password : {"pb"}, id_rol : {4}]

LoginRequests == [correo : {"a@x", "b@x"}, password : {"pa", "pb"}]

UsuarioUpdates == {[estado |-> "Inactivo"], [estado |-> "Suspendido"], [estado |-> "Activo"]}

\* the bearer tokens a request may carry: every token issued so far, a token
\* whose signature does not verify, a signed token without a sub claim
TokensPresentados ==
    tokens \cup {[firmado |-> FALSE, sub |-> 1], [firmado |-> TRUE, sub |-> NULL]}

InitAuth ==
    /\ usuarios = UsuariosAuth
    /\ formularios = FormulariosIniciales
    /\ preguntas = PreguntasIniciales
    /\ evaluaciones = <<>>
    /\ resultados = <<>>
    /\ hoy = 1
    /\ tokens = {}
    /\ azar = 0
    /\ sesiones = <<>>
    /\ resp = Respuesta("init", HTTP_200_OK, NULL)

Register ==
    \E user_data \in RegisterRequests :
        /\ register(user_data)
        /\ Len(usuarios') <= MaxUsuarios

ConfirmarCorreo == \E token \in 1..MaxUsuarios : confirmar_correo(token)

Login == \E credentials \in LoginRequests : login(credentials)

ValidarToken == \E token \in TokensPresentados : validar_token(token)

UpdateUser ==
    \E token \in TokensPresentados, user_id \in 1..(Len(usuarios) + 1), user_data \in UsuarioUpdates :
        update_user(token, user_id, user_data)

DeleteUser ==
    \E token \in TokensPresentados, user_id \in 1..(Len(usuarios) + 1) :
        delete_user(token, user_id)

NextAuth ==
    \/ Register
    \/ ConfirmarCorreo
    \/ Login
    \/ ValidarToken
    \/ UpdateUser
    \/ DeleteUser

SpecAuth == InitAuth /\ [][NextAuth]_vars


(***************************************************************************)
(* Properties of the weighted score                                       *)
(***************************************************************************)
\* the Results of evaluation 1 that carry a score
Puntuados == {r \in Indices(resultados) : resultados[r].id_evaluacion = 1 /\ resultados[r].puntaje # NULL}

RECURSIVE SumaDe(_, _)
SumaDe(S, termino) ==
    IF S = {} THEN 0
    ELSE LET x == CHOOSE y \in S : TRUE IN termino[x] + SumaDe(S \ {x}, termino)

\* sum(puntaje * peso) and sum(peso) over the scored Results
Numerador ==
    SumaDe(Puntuados, [r \in Puntuados |->
                          resultados[r].puntaje * preguntas[resultados[r].id_pregunta].peso])

Denominador ==
    SumaDe(Puntuados, [r \in Puntuados |-> preguntas[resultados[r].id_pregunta].peso])

\* the two hundredths around Numerador / Denominador
Vecinos == {Numerador \div Denominador, Numerador \div Denominador + 1}

\* the hundredths nearest to Numerador / Denominador, a tie going to the even one
MasCercanoPar ==
    CHOOSE h \in Vecinos :
        \/ 2 * Abs(Numerador - h * Denominador) < Denominador
        \/ 2 * Abs(Numerador - h * Denominador) = Denominador /\ h % 2 = 0

\* the hundredths nearest to Numerador / Denominador, a tie going up
MasCercanoArriba ==
    CHOOSE h \in Vecinos :
        /\ 2 * h * Denominador <= 2 * Numerador + Denominador
        /\ 2 * Numerador + Denominador < 2 * (h + 1) * Denominador

\* C6 (as amended): calcular_puntaje_evaluacion returns sum(puntaje * peso) /
\* sum(peso) over the Results whose puntaje is not null, rounded to 2 decimal
\* places with a tie going to the even hundredth (1.125 gives 1.12, 1.135 gives
\* 1.14), and exactly 0.00 when there are no Results or the weights of the scored
\* Results sum to zero; scores {8, 6} with weights {2, 1} give 7.33.
C6_PuntajePonderado ==
    (resp.op = "completar" /\ resp.status = HTTP_200_OK) =>
        /\ evaluaciones[1].puntaje_total =
              IF Denominador = 0 THEN 0 ELSE MasCercanoPar
        /\ (Numerador = 220000 /\ Denominador = 300) => evaluaciones[1].puntaje_total = 733

\* C6 witness: scores 3.00 and 0.00 with weights 3.00 and 5.00 average 1.125
\* and the evaluation was completed with puntaje_total 1.12
C6_Witness ==
    /\ resp.op = "completar"
    /\ resp.status = HTTP_200_OK
    /\ Numerador = 90000
    /\ Denominador = 800
    /\ evaluaciones[1].puntaje_total = 112

\* C6 (as stated): the quotient is rounded to 2 decimal places using standard
\* rounding, a tie going up.
C6_Original ==
    (resp.op = "completar" /\ resp.status = HTTP_200_OK) =>
        evaluaciones[1].puntaje_total =
            IF Denominador = 0 THEN 0 ELSE MasCercanoArriba


(***************************************************************************)
(* Properties of authentication                                           *)
(***************************************************************************)
\* a user whose email and password are the ones presented
Acreditado(u, credentials) ==
    /\ usuarios[u].existe
    /\ usuarios[u].correo = credentials.correo
    /\ usuarios[u].password_hash = <<"hash", credentials.password>>

\* C9: login issues an access token only when the email/password pair is
\* correct and the user's estado is Activo and correo_confirmado is true; a user
\* who has registered but not confirmed never obtains a token, whatever login
\* attempts are made.
C9_LoginSoloConfirmados ==
    [][/\ tokens' # tokens => resp'.op = "login"
       /\ resp'.op = "login" =>
             \A credentials \in LoginRequests :
                 login(credentials) =>
                     /\ (resp'.status = HTTP_200_OK) = (tokens' # tokens \/ resp'.n # NULL)
                     /\ resp'.status = HTTP_200_OK =>
                           \E u \in Indices(usuarios) :
                               /\ Acreditado(u, credentials)
                               /\ usuarios[u].estado = "Activo"
                               /\ usuarios[u].correo_confirmado
                               /\ resp'.n = u
                               /\ tokens' = tokens \cup {[firmado |-> TRUE, sub |-> u]}
                     /\ \A t \in tokens' \ tokens :
                           /\ usuarios[t.sub].correo_confirmado
                           /\ usuarios[t.sub].estado = "Activo"]_vars

\* C9 witness: a registered, unconfirmed user presented the right password (the
\* login stamped ultimo_acceso) and was refused with 403, no token naming the user
C9_Witness ==
    /\ resp.op = "login"
    /\ resp.status = HTTP_403_FORBIDDEN
    /\ \E u \in Indices(usuarios) :
          /\ usuarios[u].existe
          /\ usuarios[u].estado = "Activo"
          /\ ~usuarios[u].correo_confirmado
          /\ usuarios[u].ultimo_acceso # NULL
          /\ \A t \in tokens : t.sub # u

\* the status the authentication dependency owes a token in the current state
EstadoDebido(token) ==
    IF ~token.firmado \/ token.sub = NULL THEN HTTP_401_UNAUTHORIZED
    ELSE IF ~(token.sub \in Indices(usuarios) /\ usuarios[token.sub].existe) THEN HTTP_401_UNAUTHORIZED
    ELSE IF usuarios[token.sub].estado # "Activo" THEN HTTP_403_FORBIDDEN
    ELSE HTTP_200_OK

\* C10: the authentication dependency is evaluated on every protected request
\* against the current database state: a token that does not decode, has no sub
\* claim or names a user id that no longer exists yields 401, a decodable token
\* whose user exists but is not Activo yields 403; so a token issued before its
\* user was set Inactivo or Suspendido is rejected on every later protected
\* request, which changes nothing.  (Each implication "the request made this
\* step => its outcome" is written as "the outcome, or the request did not make
\* this step".)
C10_DependenciaAutenticacion ==
    [][/\ resp'.op = "validar_token" =>
             \A token \in TokensPresentados :
                 \/ resp'.status = EstadoDebido(token)
                 \/ ~validar_token(token)
       /\ resp'.op = "update_user" =>
             \A token \in TokensPresentados :
                 EstadoDebido(token) # HTTP_200_OK =>
                     \A user_id \in 1..(Len(usuarios) + 1), user_data \in UsuarioUpdates :
                         \/ resp'.status = EstadoDebido(token) /\ usuarios' = usuarios
                         \/ ~update_user(token, user_id, user_data)
       /\ resp'.op = "delete_user" =>
             \A token \in TokensPresentados :
                 EstadoDebido(token) # HTTP_200_OK =>
                     \A user_id \in 1..(Len(usuarios) + 1) :
                         \/ resp'.status = EstadoDebido(token) /\ usuarios' = usuarios
                         \/ ~delete_user(token, user_id)]_vars

\* C10 witness: a token issued by login was presented after its user was set
\* Inactivo or Suspendido and the request was refused with 403
C10_Witness ==
    /\ resp.op \in {"validar_token", "update_user", "delete_user"}
    /\ resp.status = HTTP_403_FORBIDDEN
    /\ \E t \in tokens :
          /\ usuarios[t.sub].existe
          /\ usuarios[t.sub].estado \in {"Inactivo", "Suspendido"}
          /\ \A o \in tokens \ {t} : ~usuarios[o.sub].existe \/ usuarios[o.sub].estado # "Activo"

(***************************************************************************)
(* Reading one evaluation (evaluaciones/routers.py, obtener_evaluacion)   *)
(***************************************************************************)
\* obtener_evaluacion without the clause for the manager of the evaluado
obtener_evaluacion_sin_manager(evaluacion_id, current_user) ==
    LET evaluacion == get_evaluacion_by_id(evaluacion_id)
    IN IF evaluacion = NULL
       THEN Falla("obtener_evaluacion", HTTP_404_NOT_FOUND)
       ELSE LET tiene_permiso ==
                    \/ current_user = evaluaciones[evaluacion].id_evaluador
                    \/ current_user = evaluaciones[evaluacion].id_evaluado
                    \/ nombre_rol(usuarios[current_user].id_rol)
                           \in {"Administrador", "RRHH", "Director"}
            IN IF ~tiene_permiso
               THEN Falla("obtener_evaluacion", HTTP_403_FORBIDDEN)
               ELSE /\ resp' = Respuesta("obtener_evaluacion", HTTP_200_OK, evaluacion)
                    /\ SinCambios

\* GET /evaluaciones/{evaluacion_id}; current_user is the user get_current_user returned
obtener_evaluacion(evaluacion_id, current_user) ==
    LET evaluacion == get_evaluacion_by_id(evaluacion_id)
    IN IF evaluacion = NULL
       THEN Falla("obtener_evaluacion", HTTP_404_NOT_FOUND)
       ELSE LET evaluado == evaluaciones[evaluacion].id_evaluado
                es_manager_del_evaluado ==
                    /\ UsuarioExiste(evaluado)
                    /\ usuarios[evaluado].manager_id = current_user
                tiene_permiso ==
                    \/ current_user = evaluaciones[evaluacion].id_evaluador
                    \/ current_user = evaluaciones[evaluacion].id_evaluado
                    \/ es_manager_del_evaluado
                    \/ nombre_rol(usuarios[current_user].id_rol)
                           \in {"Administrador", "RRHH", "Director"}
            IN IF ~tiene_permiso
               THEN Falla("obtener_evaluacion", HTTP_403_FORBIDDEN)
               ELSE /\ resp' = Respuesta("obtener_evaluacion", HTTP_200_OK, evaluacion)
                    /\ SinCambios

(***************************************************************************)
(* Specification SpecObtener: evaluations are started and then read by    *)
(* every kind of caller                                                   *)
(***************************************************************************)
\* an Administrador, a Manager, two Colaboradores, a Director and an RRHH user
UsuariosObtener ==
    << Usuario("a@x", "pa", 1, "Activo", TRUE, NULL),
       Usuario("b@x", "pb", 3, "Activo", TRUE, NULL),
       Usuario("c@x", "pc", 4, "Activo", TRUE, NULL),
       Usuario("d@x", "pd", 4, "Activo", TRUE, NULL),
       Usuario("e@x", "pe", 5, "Activo", TRUE, NULL),
       Usuario("f@x", "pf", 2, "Activo", TRUE, NULL) >>

\* usuarios.manager_id of the two Colaboradores: none, the Manager, the other Colaborador
ManagersObtener == {NULL, 2, 4}

IniciarRequestsObtener == {IniciarRequest(1, 3), IniciarRequest(1, 4)}

InitObtener ==
    /\ \E m3 \in ManagersObtener, m4 \in {NULL, 2} :
          usuarios = [UsuariosObtener EXCEPT ![3].manager_id = m3, ![4].manager_id = m4]
    /\ formularios = FormulariosIniciales
    /\ preguntas = PreguntasIniciales
    /\ evaluaciones = <<>>
    /\ resultados = <<>>
    /\ hoy = 1
    /\ tokens = {}
    /\ azar = 0
    /\ sesiones = <<>>
    /\ resp = Respuesta("init", HTTP_200_OK, NULL)

IniciarO ==
    \E caller \in Autenticados, request \in IniciarRequestsObtener :
        /\ router_iniciar_evaluacion(request, caller)
        /\ Len(evaluaciones') <= MaxAsignadas

ObtenerEvaluacion ==
    \E caller \in Autenticados, evaluacion_id \in 1..(Len(evaluaciones) + 1) :
        obtener_evaluacion(evaluacion_id, caller)

NextObtener ==
    \/ IniciarO
    \/ ObtenerEvaluacion

SpecObtener == InitObtener /\ [][NextObtener]_vars

\* the callers the rule of GET /evaluaciones/{id} admits for evaluation e
PuedeVer(e, u) ==
    \/ u = evaluaciones[e].id_evaluador
    \/ u = evaluaciones[e].id_evaluado
    \/ /\ UsuarioExiste(evaluaciones[e].id_evaluado)
       /\ usuarios[evaluaciones[e].id_evaluado].manager_id = u
    \/ nombre_rol(usuarios[u].id_rol) \in {"Administrador", "RRHH", "Director"}

\* C11: for an existing evaluation, GET /evaluaciones/{id} answers 200 with the
\* evaluation exactly when the authenticated caller is its evaluador, its
\* evaluado, the user named by the evaluado's manager_id, or has role
\* Administrador, RRHH or Director; every other authenticated caller gets 403.
C11_PermisoDeLectura ==
    [][resp'.op = "obtener_evaluacion" =>
          \A u \in Autenticados, e \in Indices(evaluaciones) :
             obtener_evaluacion(e, u) =>
                /\ PuedeVer(e, u) => resp'.status = HTTP_200_OK /\ resp'.n = e
                /\ ~PuedeVer(e, u) => resp'.status = HTTP_403_FORBIDDEN]_vars

\* an evaluation whose evaluado has a Colaborador as manager was returned,
\* with a second evaluation present for a Colaborador without manager
C11_Witness ==
    /\ resp.op = "obtener_evaluacion"
    /\ resp.status = HTTP_200_OK
    /\ Len(evaluaciones) = 2
    /\ evaluaciones[resp.n].id_evaluado = 3
    /\ evaluaciones[resp.n].id_evaluador = 2
    /\ usuarios[3].manager_id = 4
    /\ usuarios[4].manager_id = NULL
    /\ evaluaciones[2].id_evaluado = 4

(***************************************************************************)
(* Confirmation resend and password recovery (auth/routers.py,            *)
(* auth/services.py).  A response carries its message and the background  *)
(* tasks the request scheduled.                                           *)
(***************************************************************************)
RespuestaMensaje(op, st, mensaje, tareas) ==
    [op |-> op, status |-> st, n |-> NULL, creadas |-> {}, existentes |-> {},
     mensaje |-> mensaje, tareas |-> tareas]

\* background_tasks.add_task(send_confirmation_email, email=..., token=...)
send_confirmation_email(email, token) ==
    [tarea |-> "send_confirmation_email", email |-> email, token |-> token]

\* background_tasks.add_task(send_password_reset_code_email, email=..., codigo=...)
send_password_reset_code_email(email, codigo) ==
    [tarea |-> "send_password_reset_code_email", email |-> email, token |-> codigo]

\* the token regenerate_confirmation_token returns (NULL for None); the caller
\* applies its commit of token_confirmacion
regenerate_confirmation_token(email) ==
    LET usuario == usuario_por_correo(email)
    IN IF usuario = NULL THEN NULL
       ELSE IF usuarios[usuario].estado = "Activo" THEN NULL
       ELSE azar + 1

\* POST /auth/reenviar-confirmacion
reenviar_confirmacion(request) ==
    LET usuario == usuario_por_correo(request.email)
        nuevo_token == regenerate_confirmation_token(request.email)
    IN IF usuario = NULL
       THEN /\ resp' = RespuestaMensaje("reenviar_confirmacion", HTTP_200_OK,
                  "Si el correo existe, recibirás un nuevo enlace de confirmación.", {})
            /\ SinCambios
       ELSE IF usuarios[usuario].correo_confirmado
       THEN /\ resp' = RespuestaMensaje("reenviar_confirmacion", HTTP_200_OK,
                  "Este correo ya está confirmado. Puedes iniciar sesión.", {})
            /\ SinCambios
       ELSE IF nuevo_token = NULL
       THEN /\ resp' = RespuestaMensaje("reenviar_confirmacion", HTTP_200_OK,
                  "Se ha enviado un nuevo correo de confirmación.", {})
            /\ SinCambios
       ELSE /\ usuarios' = [usuarios EXCEPT ![usuario].token_confirmacion = nuevo_token]
            /\ azar' = azar + 1
            /\ resp' = RespuestaMensaje("reenviar_confirmacion", HTTP_200_OK,
                  "Se ha enviado un nuevo correo de confirmación.",
                  {send_confirmation_email(usuarios[usuario].correo, nuevo_token)})
            /\ UNCHANGED <<formularios, preguntas, evaluaciones, resultados, hoy, tokens, sesiones>>

\* request_password_reset answering 404 for an unknown email
request_password_reset_revelador(request, codigo) ==
    LET usuario == usuario_por_correo(request.email)
    IN IF usuario = NULL
       THEN /\ resp' = RespuestaMensaje("request_password_reset", HTTP_404_NOT_FOUND,
                  "Usuario no encontrado", {})
            /\ SinCambios
       ELSE /\ usuarios' = [usuarios EXCEPT ![usuario].token_confirmacion = codigo]
            /\ resp' = RespuestaMensaje("request_password_reset", HTTP_200_OK,
                  "Si el correo existe, recibirás un código de recuperación.",
                  {send_password_reset_code_email(usuarios[usuario].correo, codigo)})
            /\ UNCHANGED <<formularios, preguntas, evaluaciones, resultados, hoy, tokens, azar, sesiones>>

\* POST /auth/request-password-reset; codigo is the outcome of the six
\* random.randint(0, 9) draws
request_password_reset(request, codigo) ==
    LET usuario == usuario_por_correo(request.email)
    IN IF usuario = NULL
       THEN /\ resp' = RespuestaMensaje("request_password_reset", HTTP_200_OK,
                  "Si el correo existe, recibirás un código de recuperación.", {})
            /\ SinCambios
       ELSE /\ usuarios' = [usuarios EXCEPT ![usuario].token_confirmacion = codigo]
            /\ resp' = RespuestaMensaje("request_password_reset", HTTP_200_OK,
                  "Si el correo existe, recibirás un código de recuperación.",
                  {send_password_reset_code_email(usuarios[usuario].correo, codigo)})
            /\ UNCHANGED <<formularios, preguntas, evaluaciones, resultados, hoy, tokens, azar, sesiones>>

\* Query.first() on usuarios filtered by correo and token_confirmacion
usuario_por_correo_y_codigo(email, codigo) ==
    LET filas == {u \in Indices(usuarios) : /\ usuarios[u].existe
                                            /\ usuarios[u].correo = email
                                            /\ usuarios[u].token_confirmacion = codigo}
    IN IF filas = {} THEN NULL ELSE Min(filas)

\* POST /auth/verify-reset-token
verify_reset_token(request) ==
    LET usuario == usuario_por_correo_y_codigo(request.email, request.codigo)
    IN IF usuario = NULL
       THEN Falla("verify_reset_token", HTTP_400_BAD_REQUEST)
       ELSE /\ resp' = RespuestaMensaje("verify_reset_token", HTTP_200_OK, "valid", {})
            /\ SinCambios

\* reset_password that leaves the stored code in place
reset_password_sin_borrar(request) ==
    LET usuario == usuario_por_correo_y_codigo(request.email, request.codigo)
    IN IF usuario = NULL
       THEN Falla("reset_password", HTTP_400_BAD_REQUEST)
       ELSE /\ usuarios' = [usuarios EXCEPT
                   ![usuario].password_hash = get_password_hash(request.nueva_password)]
            /\ resp' = RespuestaMensaje("reset_password", HTTP_200_OK,
                  "Contraseña actualizada exitosamente", {})
            /\ UNCHANGED <<formularios, preguntas, evaluaciones, resultados, hoy, tokens, azar, sesiones>>

\* POST /auth/reset-password
reset_password(request) ==
    LET usuario == usuario_por_correo_y_codigo(request.email, request.codigo)
    IN IF usuario = NULL
       THEN Falla("reset_password", HTTP_400_BAD_REQUEST)
       ELSE /\ usuarios' = [usuarios EXCEPT
                   ![usuario].password_hash = get_password_hash(request.nueva_password),
                   ![usuario].token_confirmacion = NULL]
            /\ resp' = RespuestaMensaje("reset_password", HTTP_200_OK,
                  "Contraseña actualizada exitosamente", {})
            /\ UNCHANGED <<formularios, preguntas, evaluaciones, resultados, hoy, tokens, azar, sesiones>>

(***************************************************************************)
(* Specification SpecCuenta: registration, confirmation, resend and       *)
(* password recovery                                                      *)
(***************************************************************************)
MaxTokens == 3

\* a confirmed Administrador and a Colaborador that was set Inactivo before
\* confirming, still holding the token register issued
UsuariosCuenta ==
    << Usuario("a@x", "pa", 1, "Activo", TRUE, NULL),
       Usuario("c@x", "pc", 4, "Inactivo", FALSE, 1) >>

\* the addresses requests name: one that may register, an account, one that never registers
Correos == {"b@x", "c@x", "z@x"}

\* outcomes of the six-digit draw
Codigos == {111111, 222222}

\* the strings a confirmation request may carry
TokensConfirmacion == (1..MaxTokens) \cup Codigos

ReenviarConfirmacionRequests == [email : Correos]

PasswordResetRequests == [email : Correos]

VerifyResetCodeRequests == [email : Correos, codigo : Codigos]

PasswordResetConfirms == [email : Correos, codigo : Codigos, nueva_password : {"pn"}]

InitCuenta ==
    /\ usuarios = UsuariosCuenta
    /\ formularios = FormulariosIniciales
    /\ preguntas = PreguntasIniciales
    /\ evaluaciones = <<>>
    /\ resultados = <<>>
    /\ hoy = 1
    /\ tokens = {}
    /\ azar = 1
    /\ sesiones = <<>>
    /\ resp = Respuesta("init", HTTP_200_OK, NULL)

RegisterC ==
    \E user_data \in RegisterRequests :
        /\ register(user_data)
        /\ Len(usuarios') <= MaxUsuarios + 1
        /\ azar' <= MaxTokens

ConfirmarCorreoC == \E token \in TokensConfirmacion : confirmar_correo(token)

ReenviarConfirmacion ==
    \E request \in ReenviarConfirmacionRequests :
        /\ reenviar_confirmacion(request)
        /\ azar' <= MaxTokens

RequestPasswordReset ==
    \E request \in PasswordResetRequests, codigo \in Codigos :
        request_password_reset(request, codigo)

VerifyResetToken == \E request \in VerifyResetCodeRequests : verify_reset_token(request)

ResetPassword == \E request \in PasswordResetConfirms : reset_password(request)

NextCuenta ==
    \/ RegisterC
    \/ ConfirmarCorreoC
    \/ ReenviarConfirmacion
    \/ RequestPasswordReset
    \/ VerifyResetToken
    \/ ResetPassword

SpecCuenta == InitCuenta /\ [][NextCuenta]_vars

(***************************************************************************)
(* Properties of resend and password recovery                            *)
(***************************************************************************)
\* C12: request-password-reset gives no enumeration signal: whether or not the
\* requested email belongs to an account, the status is 200 and the body is the
\* one generic message, so two runs differing only in the existence of the
\* account have identical status and body.
C12_SinEnumeracion ==
    [][resp'.op = "request_password_reset" =>
          \A request \in PasswordResetRequests, codigo \in Codigos :
             request_password_reset(request, codigo) =>
                /\ resp'.status = HTTP_200_OK
                /\ resp'.mensaje = "Si el correo existe, recibirás un código de recuperación."]_vars

\* a request for an existing account was answered and its code stored
C12_Witness ==
    /\ resp.op = "request_password_reset"
    /\ resp.status = HTTP_200_OK
    /\ \E u \in Indices(usuarios) :
          /\ usuarios[u].token_confirmacion \in Codigos
          /\ resp.tareas = {send_password_reset_code_email(usuarios[u].correo,
                                                           usuarios[u].token_confirmacion)}

\* C13: reenviar-confirmacion answers with one and the same message when no
\* account exists for the email and when the account exists and is already
\* confirmed (the generic message of the no-account case).
C13_MensajeUnico ==
    [][resp'.op = "reenviar_confirmacion" =>
          \A request \in ReenviarConfirmacionRequests :
             (/\ reenviar_confirmacion(request)
              /\ \/ usuario_por_correo(request.email) = NULL
                 \/ usuarios[usuario_por_correo(request.email)].correo_confirmado)
             => resp'.mensaje = "Si el correo existe, recibirás un nuevo enlace de confirmación."]_vars

\* C14: for every existing account whose correo_confirmado is false,
\* reenviar-confirmacion replaces token_confirmacion with a newly generated
\* token and schedules a confirmation email carrying that token.
C14_ReenvioRegenera ==
    [][resp'.op = "reenviar_confirmacion" =>
          \A request \in ReenviarConfirmacionRequests :
             LET usuario == usuario_por_correo(request.email)
             IN (/\ reenviar_confirmacion(request)
                 /\ usuario # NULL
                 /\ ~usuarios[usuario].correo_confirmado)
                => /\ usuarios'[usuario].token_confirmacion # usuarios[usuario].token_confirmacion
                   /\ usuarios'[usuario].token_confirmacion = azar + 1
                   /\ resp'.tareas = {send_confirmation_email(request.email, azar + 1)}]_vars

\* the users holding a value in token_confirmacion
TitularesDe(tabla, token) ==
    {u \in Indices(tabla) : tabla[u].existe /\ tabla[u].token_confirmacion = token}

\* C15: a confirmation token is single-use: confirming with a token that
\* matches a user sets correo_confirmado, estado Activo and clears the token,
\* after which the token matches no user (a later request with it fails with
\* 400); a token matching no user fails with 400 and changes no user.
C15_TokenDeUnUso ==
    [][resp'.op = "confirmar_correo" =>
          \A token \in TokensConfirmacion :
             confirmar_correo(token) =>
                IF TitularesDe(usuarios, token) # {}
                THEN /\ resp'.status = HTTP_200_OK
                     /\ \E u \in TitularesDe(usuarios, token) :
                           usuarios' = [usuarios EXCEPT ![u].correo_confirmado = TRUE,
                                                        ![u].estado = "Activo",
                                                        ![u].token_confirmacion = NULL]
                     /\ TitularesDe(usuarios', token) = {}
                ELSE /\ resp'.status = HTTP_400_BAD_REQUEST
                     /\ usuarios' = usuarios]_vars

\* the accounts an email + code pair matches
Coincide(tabla, email, codigo) ==
    {u \in Indices(tabla) : /\ tabla[u].existe
                            /\ tabla[u].correo = email
                            /\ tabla[u].token_confirmacion = codigo}

\* C16: verify-reset-token accepts exactly a matching email + code and changes
\* nothing; reset-password with a matching pair replaces the password hash and
\* clears the code, after which the pair matches no account (both routes reject
\* it), and with a non-matching pair fails with 400 and changes no user; a
\* rejected pair is accepted again only after request-password-reset has stored
\* that code for the account.
C16_CicloDelCodigo ==
    [][/\ resp'.op = "verify_reset_token" =>
             \A request \in VerifyResetCodeRequests :
                verify_reset_token(request) =>
                   /\ usuarios' = usuarios
                   /\ (resp'.status = HTTP_200_OK)
                         = (Coincide(usuarios, request.email, request.codigo) # {})
                   /\ resp'.status \in {HTTP_200_OK, HTTP_400_BAD_REQUEST}
       /\ resp'.op = "reset_password" =>
             \A request \in PasswordResetConfirms :
                reset_password(request) =>
                   IF Coincide(usuarios, request.email, request.codigo) # {}
                   THEN /\ resp'.status = HTTP_200_OK
                        /\ \E u \in Coincide(usuarios, request.email, request.codigo) :
                              usuarios' = [usuarios EXCEPT
                                 ![u].password_hash = get_password_hash(request.nueva_password),
                                 ![u].token_confirmacion = NULL]
                        /\ Coincide(usuarios', request.email, request.codigo) = {}
                   ELSE /\ resp'.status = HTTP_400_BAD_REQUEST
                        /\ usuarios' = usuarios
       /\ \A email \in Correos, codigo \in Codigos :
             (Coincide(usuarios, email, codigo) = {} /\ Coincide(usuarios', email, codigo) # {})
                => resp'.op = "request_password_reset"]_vars

\* a reset succeeded after the account's code was stored: the new hash is in
\* place and the code is gone
C16_Witness ==
    /\ resp.op = "reset_password"
    /\ resp.status = HTTP_200_OK
    /\ \E u \in Indices(usuarios) :
          /\ usuarios[u].password_hash = get_password_hash("pn")
          /\ usuarios[u].token_confirmacion = NULL
          /\ usuarios[u].correo = "c@x"

(***************************************************************************)
(* Forms and questions (formularios/services.py, formularios/routers.py). *)
(* A deleted question keeps its place in the table with existe = FALSE:   *)
(* the autoincrement key is never reused.  integridad tells whether the   *)
(* database enforces the declared foreign keys (DATABASE_URL decides).    *)
(***************************************************************************)
get_formulario_by_id(formulario_id) ==
    IF formulario_id \in Indices(formularios) THEN formulario_id ELSE NULL

\* the existing questions of a form in a table of questions
PreguntasDelFormulario(tabla, formulario_id) ==
    {q \in Indices(tabla) : tabla[q].existe /\ tabla[q].id_formulario = formulario_id}

\* the rows added for a list of question definitions: orden is idx + 1
nuevas_preguntas(formulario_id, lista) ==
    [idx \in Indices(lista) |->
        Pregunta(formulario_id, lista[idx].peso, idx, lista[idx].requerido)]

\* the rows added with the orden the client sent
nuevas_preguntas_orden_cliente(formulario_id, lista) ==
    [idx \in Indices(lista) |->
        Pregunta(formulario_id, lista[idx].peso, lista[idx].orden, lista[idx].requerido)]

\* create_formulario keeping the client's orden values
create_formulario_orden_cliente(formulario, creado_por_id, integridad) ==
    IF integridad /\ formulario.rol_aplicable \notin {NULL, 1, 2, 3, 4, 5}
    THEN Falla("create_formulario", HTTP_400_BAD_REQUEST)
    ELSE /\ formularios' = Append(formularios, Formulario("Borrador"))
         /\ preguntas' = preguntas \o
                nuevas_preguntas_orden_cliente(Len(formularios) + 1, formulario.preguntas)
         /\ resp' = Respuesta("create_formulario", HTTP_200_OK, Len(formularios) + 1)
         /\ UNCHANGED <<usuarios, evaluaciones, resultados, hoy, tokens, azar, sesiones>>

\* services.create_formulario(db, formulario, creado_por_id): the flush of the
\* form row raises IntegrityError when rol_aplicable names no role and the
\* database enforces the foreign key; the handler rolls back and raises 400
create_formulario(formulario, creado_por_id, integridad) ==
    IF integridad /\ formulario.rol_aplicable \notin {NULL, 1, 2, 3, 4, 5}
    THEN Falla("create_formulario", HTTP_400_BAD_REQUEST)
    ELSE /\ formularios' = Append(formularios, Formulario("Borrador"))
         /\ preguntas' = preguntas \o
                nuevas_preguntas(Len(formularios) + 1, formulario.preguntas)
         /\ resp' = Respuesta("create_formulario", HTTP_200_OK, Len(formularios) + 1)
         /\ UNCHANGED <<usuarios, evaluaciones, resultados, hoy, tokens, azar, sesiones>>

\* POST /formularios/
crear_formulario(formulario, current_user, integridad) ==
    IF ~require_role(current_user, {"Administrador", "RRHH"})
    THEN Falla("create_formulario", HTTP_403_FORBIDDEN)
    ELSE create_formulario(formulario, current_user, integridad)

\* the results that reference a question of the form
ResultadosDelFormulario(formulario_id) ==
    {r \in Indices(resultados) :
        resultados[r].id_pregunta \in PreguntasDelFormulario(preguntas, formulario_id)}

\* services.update_formulario(db, formulario_id, formulario_update);
\* formulario_update holds the fields the request set.  The bulk DELETE of the
\* form's questions runs outside the try block: where the database enforces the
\* foreign key of resultados.id_pregunta it raises IntegrityError, the global
\* handler answers 500 and the session is closed without commit
update_formulario(formulario_id, formulario_update, integridad) ==
    LET db_formulario == get_formulario_by_id(formulario_id)
        con_datos == IF "estado" \in DOMAIN formulario_update
                     THEN [formularios EXCEPT ![formulario_id].estado = formulario_update.estado]
                     ELSE formularios
        sin_preguntas == [q \in Indices(preguntas) |->
                             IF q \in PreguntasDelFormulario(preguntas, formulario_id)
                             THEN [preguntas[q] EXCEPT !.existe = FALSE]
                             ELSE preguntas[q]]
    IN IF db_formulario = NULL
       THEN Falla("update_formulario", HTTP_404_NOT_FOUND)
       ELSE IF "preguntas" \notin DOMAIN formulario_update
       THEN /\ formularios' = con_datos
            /\ resp' = Respuesta("update_formulario", HTTP_200_OK, formulario_id)
            /\ UNCHANGED <<usuarios, preguntas, evaluaciones, resultados, hoy, tokens, azar, sesiones>>
       ELSE IF integridad /\ ResultadosDelFormulario(formulario_id) # {}
       THEN Falla("update_formulario", HTTP_500_INTERNAL_SERVER_ERROR)
       ELSE /\ formularios' = con_datos
            /\ preguntas' = sin_preguntas \o
                   nuevas_preguntas(formulario_id, formulario_update.preguntas)
            /\ resp' = Respuesta("update_formulario", HTTP_200_OK, formulario_id)
            /\ UNCHANGED <<usuarios, evaluaciones, resultados, hoy, tokens, azar, sesiones>>

\* PUT /formularios/{formulario_id}
actualizar_formulario(formulario_id, formulario_update, current_user, integridad) ==
    IF ~require_role(current_user, {"Administrador", "RRHH"})
    THEN Falla("update_formulario", HTTP_403_FORBIDDEN)
    ELSE update_formulario(formulario_id, formulario_update, integridad)

\* the evaluations that reference a form
EvaluacionesDelFormulario(formulario_id) ==
    {e \in Indices(evaluaciones) : evaluaciones[e].id_formulario = formulario_id}

\* delete_formulario without the count of evaluations
delete_formulario_sin_control(formulario_id) ==
    LET db_formulario == get_formulario_by_id(formulario_id)
    IN IF db_formulario = NULL
       THEN Falla("delete_formulario", HTTP_404_NOT_FOUND)
       ELSE /\ formularios' = [formularios EXCEPT ![formulario_id].estado = "Archivado"]
            /\ resp' = Respuesta("delete_formulario", HTTP_200_OK, 0)
            /\ UNCHANGED <<usuarios, preguntas, evaluaciones, resultados, hoy, tokens, azar, sesiones>>

\* services.delete_formulario(db, formulario_id); n is evaluaciones_count
delete_formulario(formulario_id) ==
    LET db_formulario == get_formulario_by_id(formulario_id)
        evaluaciones_count == Cardinality(EvaluacionesDelFormulario(formulario_id))
    IN IF db_formulario = NULL
       THEN Falla("delete_formulario", HTTP_404_NOT_FOUND)
       ELSE IF evaluaciones_count > 0
       THEN resp' = Respuesta("delete_formulario", HTTP_400_BAD_REQUEST, evaluaciones_count)
            /\ SinCambios
       ELSE /\ formularios' = [formularios EXCEPT ![formulario_id].estado = "Archivado"]
            /\ resp' = Respuesta("delete_formulario", HTTP_200_OK, 0)
            /\ UNCHANGED <<usuarios, preguntas, evaluaciones, resultados, hoy, tokens, azar, sesiones>>

\* DELETE /formularios/{formulario_id}
eliminar_formulario(formulario_id, current_user) ==
    IF ~require_role(current_user, {"Administrador", "RRHH"})
    THEN Falla("delete_formulario", HTTP_403_FORBIDDEN)
    ELSE delete_formulario(formulario_id)

get_pregunta_by_id(pregunta_id) == IF PreguntaExiste(pregunta_id) THEN pregunta_id ELSE NULL

\* services.delete_pregunta(db, pregunta_id); n is resultados_count
delete_pregunta(pregunta_id) ==
    LET db_pregunta == get_pregunta_by_id(pregunta_id)
        resultados_count ==
            Cardinality({r \in Indices(resultados) : resultados[r].id_pregunta = pregunta_id})
    IN IF db_pregunta = NULL
       THEN Falla("delete_pregunta", HTTP_404_NOT_FOUND)
       ELSE IF resultados_count > 0
       THEN resp' = Respuesta("delete_pregunta", HTTP_400_BAD_REQUEST, resultados_count)
            /\ SinCambios
       ELSE /\ preguntas' = [preguntas EXCEPT ![pregunta_id].existe = FALSE]
            /\ resp' = Respuesta("delete_pregunta", HTTP_200_OK, 0)
            /\ UNCHANGED <<usuarios, formularios, evaluaciones, resultados, hoy, tokens, azar, sesiones>>

\* DELETE /formularios/preguntas/{pregunta_id}
eliminar_pregunta(pregunta_id, current_user) ==
    IF ~require_role(current_user, {"Administrador", "RRHH"})
    THEN Falla("delete_pregunta", HTTP_403_FORBIDDEN)
    ELSE delete_pregunta(pregunta_id)

(***************************************************************************)
(* Specification SpecFormularios: forms are updated and archived, their   *)
(* questions replaced and deleted, while evaluations are started and      *)
(* answered                                                               *)
(***************************************************************************)
MaxPreguntas == 5

\* a question definition of a request (schemas.PreguntaBase)
PreguntaBase(peso, orden, requerido) == [peso |-> peso, orden |-> orden, requerido |-> requerido]

\* the fields a request set: scalars only, an empty list, a list of two
\* questions whose orden the client set to 5 both
FormularioUpdates ==
    { [estado |-> "Activo"],
      [preguntas |-> <<>>],
      [preguntas |-> <<PreguntaBase(100, 5, FALSE), PreguntaBase(200, 5, TRUE)>>] }

IniciarRequestsFormularios == {IniciarRequest(1, 2)}

ResponderRequestsFormularios ==
    [resultados : {<<Answer(1, 800)>>}, observaciones_generales : {NONE}]

InitFormularios ==
    /\ usuarios = UsuariosIniciales
    /\ formularios = FormulariosIniciales
    /\ preguntas = PreguntasIniciales
    /\ evaluaciones = <<>>
    /\ resultados = <<>>
    /\ hoy = 1
    /\ tokens = {}
    /\ azar = 0
    /\ sesiones = <<>>
    /\ resp = Respuesta("init", HTTP_200_OK, NULL)

ActualizarFormulario ==
    \E caller \in Autenticados, formulario_id \in 1..(Len(formularios) + 1),
       formulario_update \in FormularioUpdates, integridad \in BOOLEAN :
        /\ actualizar_formulario(formulario_id, formulario_update, caller, integridad)
        /\ Len(preguntas') <= MaxPreguntas

EliminarFormulario ==
    \E caller \in Autenticados, formulario_id \in 1..(Len(formularios) + 1) :
        eliminar_formulario(formulario_id, caller)

EliminarPregunta ==
    \E caller \in Autenticados, pregunta_id \in 1..(Len(preguntas) + 1) :
        eliminar_pregunta(pregunta_id, caller)

IniciarF ==
    \E caller \in Autenticados, request \in IniciarRequestsFormularios :
        /\ router_iniciar_evaluacion(request, caller)
        /\ Len(evaluaciones') <= MaxEvaluaciones

ResponderF ==
    \E evaluacion_id \in Indices(evaluaciones), request \in ResponderRequestsFormularios :
        /\ responder_evaluacion(evaluacion_id, request, evaluaciones[evaluacion_id].id_evaluador)
        /\ Len(resultados') <= MaxResultados

NextFormularios ==
    \/ ActualizarFormulario
    \/ EliminarFormulario
    \/ EliminarPregunta
    \/ IniciarF
    \/ ResponderF

SpecFormularios == InitFormularios /\ [][NextFormularios]_vars

(***************************************************************************)
(* Specification SpecCrear: forms are created with their questions and    *)
(* archived                                                               *)
(***************************************************************************)
MaxFormularios == 4

\* no questions, one question, two questions whose orden the client set to 7
\* and 0; rol_aplicable 9 names no role
FormularioCreates ==
    [rol_aplicable : {4, 9},
     preguntas : { <<>>,
                   <<PreguntaBase(500, 3, TRUE)>>,
                   <<PreguntaBase(300, 7, TRUE), PreguntaBase(100, 0, FALSE)>> }]

CrearFormulario ==
    \E caller \in Autenticados, formulario \in FormularioCreates, integridad \in BOOLEAN :
        /\ crear_formulario(formulario, caller, integridad)
        /\ Len(formularios') <= MaxFormularios

EliminarFormularioC ==
    \E caller \in Autenticados, formulario_id \in Indices(formularios) :
        eliminar_formulario(formulario_id, caller)

NextCrear ==
    \/ CrearFormulario
    \/ EliminarFormularioC

SpecCrear == InitFormularios /\ [][NextCrear]_vars

(***************************************************************************)
(* Properties of forms and questions                                      *)
(***************************************************************************)
\* the form's existing questions are exactly the rows added after the old
\* table, one per definition of the list, in list order with orden 1..N
EsLaLista(formulario_id, lista) ==
    /\ Len(preguntas') = Len(preguntas) + Len(lista)
    /\ PreguntasDelFormulario(preguntas', formulario_id)
          = (Len(preguntas) + 1)..(Len(preguntas) + Len(lista))
    /\ \A idx \in Indices(lista) :
          LET fila == preguntas'[Len(preguntas) + idx]
          IN /\ fila.orden = idx
             /\ fila.peso = lista[idx].peso
             /\ fila.requerido = lista[idx].requerido

\* C17: update_formulario on an existing form leaves the form's questions
\* untouched when the update has no preguntas field, deletes all of them when
\* the list is empty, and otherwise leaves the form with exactly the questions
\* of the list, orden 1..N in list order; also when Results reference the
\* form's questions.
C17_ListaOmitidaOVacia ==
    [][resp'.op = "update_formulario" =>
          \A formulario_id \in Indices(formularios), formulario_update \in FormularioUpdates,
             integridad \in BOOLEAN :
             update_formulario(formulario_id, formulario_update, integridad) =>
                IF "preguntas" \notin DOMAIN formulario_update
                THEN preguntas' = preguntas
                ELSE EsLaLista(formulario_id, formulario_update.preguntas)]_vars

\* C18: creating a form with N question definitions stores exactly N questions
\* for the new form with orden 1..N in submission order, whatever orden the
\* client sent, and leaves every other row alone; a failed creation stores
\* neither the form nor any question.
C18_CrearConPreguntas ==
    [][resp'.op = "create_formulario" =>
          \A formulario \in FormularioCreates, caller \in Autenticados, integridad \in BOOLEAN :
             crear_formulario(formulario, caller, integridad) =>
                IF resp'.status = HTTP_200_OK
                THEN /\ formularios' = Append(formularios, Formulario("Borrador"))
                     /\ EsLaLista(Len(formularios) + 1, formulario.preguntas)
                     /\ \A q \in Indices(preguntas) : preguntas'[q] = preguntas[q]
                ELSE formularios' = formularios /\ preguntas' = preguntas]_vars

\* two forms were created: one with the two questions sent with orden 7 and 0,
\* stored with orden 1 and 2, and one with a single question
C18_Witness ==
    /\ resp.op = "create_formulario"
    /\ resp.status = HTTP_200_OK
    /\ Len(formularios) = 4
    /\ PreguntasDelFormulario(preguntas, 3) = {4, 5}
    /\ preguntas[4].orden = 1 /\ preguntas[4].peso = 300
    /\ preguntas[5].orden = 2 /\ preguntas[5].peso = 100
    /\ PreguntasDelFormulario(preguntas, 4) = {6}

\* C19: delete_formulario on a form that evaluations reference fails with 400
\* naming their number and changes nothing; on a form without evaluations it
\* sets estado to Archivado and removes neither the form row nor a question.
C19_ArchivarFormulario ==
    [][resp'.op = "delete_formulario" =>
          \A formulario_id \in Indices(formularios) :
             delete_formulario(formulario_id) =>
                IF EvaluacionesDelFormulario(formulario_id) # {}
                THEN /\ resp'.status = HTTP_400_BAD_REQUEST
                     /\ resp'.n = Cardinality(EvaluacionesDelFormulario(formulario_id))
                     /\ formularios' = formularios
                     /\ preguntas' = preguntas
                ELSE /\ resp'.status = HTTP_200_OK
                     /\ formularios' = [formularios EXCEPT ![formulario_id].estado = "Archivado"]
                     /\ preguntas' = preguntas]_vars

\* the form with an evaluation was refused after the other form was archived
C19_Witness ==
    /\ resp.op = "delete_formulario"
    /\ resp.status = HTTP_400_BAD_REQUEST
    /\ resp.n = 1
    /\ formularios[1].estado = "Activo"
    /\ formularios[2].estado = "Archivado"
    /\ PreguntasDelFormulario(preguntas, 2) = {3}

\* C20: a question is not deleted while a Result references it: no step
\* removes a question that has a Result, and every Result's id_pregunta names
\* an existing question.
C20_PreguntaReferenciada ==
    [][/\ \A q \in Indices(preguntas) :
             (/\ preguntas[q].existe
              /\ \E r \in Indices(resultados) : resultados[r].id_pregunta = q)
             => preguntas'[q].existe
       /\ \A r \in Indices(resultados') :
             /\ resultados'[r].id_pregunta \in Indices(preguntas')
             /\ preguntas'[resultados'[r].id_pregunta].existe]_vars

(***************************************************************************)
(* Properties of the user routes                                          *)
(***************************************************************************)
\* C21: deleting a user is a soft delete: after DELETE /usuarios/{id} succeeds
\* the user row still exists with estado = Inactivo, and every evaluation that
\* referenced the user still references an existing user
C21_BorradoLogico ==
    [][resp'.op = "delete_user" /\ resp'.status = HTTP_200_OK =>
        \A token \in TokensPresentados, user_id \in Indices(usuarios) :
            delete_user(token, user_id) =>
                /\ usuarios'[user_id].existe
                /\ usuarios'[user_id].estado = "Inactivo"
                /\ \A e \in EvaluacionesDelUsuario(user_id) :
                       /\ usuarios'[evaluaciones'[e].id_evaluado].existe
                       /\ usuarios'[evaluaciones'[e].id_evaluador].existe]_vars

(***************************************************************************)
(* Properties of the update of a single result                            *)
(***************************************************************************)
\* C22: PUT /evaluaciones/resultados/{id} modifies a Result only when the
\* caller is the assigned evaluator of the Result's evaluation and the
\* evaluation is not Completada; a request from any other authenticated user
\* leaves the Result unchanged
C22_SoloEvaluadorActualiza ==
    [][resp'.op = "update_resultado" =>
        \A caller \in Autenticados, resultado_id \in Indices(resultados), update_data \in ResultadoUpdates :
            actualizar_resultado(resultado_id, update_data, caller) =>
                \/ resultados'[resultado_id] = resultados[resultado_id]
                \/ /\ caller = evaluaciones[resultados[resultado_id].id_evaluacion].id_evaluador
                   /\ evaluaciones[resultados[resultado_id].id_evaluacion].estado # "Completada"]_vars

(***************************************************************************)
(* Properties of a rejected answer list                                   *)
(***************************************************************************)
\* the request lists an answer whose question is not one of the evaluation's form
NombraPreguntaAjena(e, request) ==
    \E i \in Indices(request.resultados) :
        ~(/\ PreguntaExiste(request.resultados[i].id_pregunta)
          /\ preguntas[request.resultados[i].id_pregunta].id_formulario = evaluaciones[e].id_formulario)

\* C23 (as amended): a responder_evaluacion call is all-or-nothing: if any answer
\* of the list names a question that does not belong to the evaluation's form,
\* the call fails (400 for the evaluation's id_evaluador, 403 for any other
\* caller), none of its answers is persisted, and the evaluation is unchanged
C23_TodoONada ==
    [][resp'.op = "responder" =>
        \A e \in Indices(evaluaciones), caller \in Indices(usuarios), request \in ResponderRequests :
            (NombraPreguntaAjena(e, request) /\ responder_evaluacion(e, request, caller)) =>
                /\ resp'.status = IF caller = evaluaciones[e].id_evaluador
                                  THEN HTTP_400_BAD_REQUEST ELSE HTTP_403_FORBIDDEN
                /\ resultados' = resultados
                /\ evaluaciones' = evaluaciones]_vars

\* C23 witness: a responder call was answered 400 while no evaluation is
\* Completada or Cancelada, so it was rejected for a question of another form
C23_Witness ==
    /\ resp.op = "responder"
    /\ resp.status = HTTP_400_BAD_REQUEST
    /\ evaluaciones # <<>>
    /\ \A e \in Indices(evaluaciones) : evaluaciones[e].estado \in {"Pendiente", "En Curso"}

\* C23 (as stated): if any answer of the list names a question that does not
\* belong to the evaluation's form, the call fails with 400, none of its answers
\* is persisted, and estado and observaciones_generales are unchanged
C23_Original ==
    [][resp'.op = "responder" =>
        \A e \in Indices(evaluaciones), caller \in Indices(usuarios), request \in ResponderRequests :
            (NombraPreguntaAjena(e, request) /\ responder_evaluacion(e, request, caller)) =>
                /\ resp'.status = HTTP_400_BAD_REQUEST
                /\ resultados' = resultados
                /\ evaluaciones'[e].estado = evaluaciones[e].estado
                /\ evaluaciones'[e].observaciones_generales = evaluaciones[e].observaciones_generales]_vars

(***************************************************************************)
(* Concurrent requests (core/database.py, get_db: one session per request).*)
(* A request is two steps: its queries, whose answers stay in the session, *)
(* and its commit, which writes what the queries decided.  Nothing locks   *)
(* the rows read, and neither resultados nor evaluaciones declares a       *)
(* uniqueness constraint.                                                  *)
(***************************************************************************)
Sesiones == {1, 2}

Libre == [op |-> "libre"]

\* the rows of a table of results for an (evaluation, question) pair
FilasEn(tabla, evaluacion_id, id_pregunta) ==
    {r \in Indices(tabla) : /\ tabla[r].id_evaluacion = evaluacion_id
                            /\ tabla[r].id_pregunta = id_pregunta}

\* responder_evaluacion up to the end of its loop: the checks and, for each
\* answer, the query for an existing result
responder_evaluacion_consultas(s, evaluacion_id, request, evaluador_id) ==
    IF get_evaluacion_by_id(evaluacion_id) = NULL
    THEN Falla("responder", HTTP_404_NOT_FOUND)
    ELSE IF evaluaciones[evaluacion_id].id_evaluador # evaluador_id
    THEN Falla("responder", HTTP_403_FORBIDDEN)
    ELSE IF evaluaciones[evaluacion_id].estado \notin {"Pendiente", "En Curso"}
    THEN Falla("responder", HTTP_400_BAD_REQUEST)
    ELSE \E primero \in PrimerosPosibles(evaluacion_id) :
           LET r == registrar_resultados(evaluacion_id, request.resultados, resultados, <<>>, primero)
           IN IF ~r.ok
              THEN Falla("responder", HTTP_400_BAD_REQUEST)
              ELSE /\ sesiones' = [sesiones EXCEPT ![s] =
                          [op |-> "responder", evaluacion_id |-> evaluacion_id,
                           request |-> request, primero |-> primero]]
                   /\ UNCHANGED <<usuarios, formularios, preguntas, evaluaciones, resultados,
                                  hoy, tokens, azar, resp>>

\* the commit of responder_evaluacion under a UNIQUE (id_evaluacion, id_pregunta):
\* an insert for a pair that has a row by now is the IntegrityError the
\* function turns into 400
responder_evaluacion_commit_con_unicidad(s) ==
    LET x == sesiones[s]
        r == registrar_resultados(x.evaluacion_id, x.request.resultados, resultados, <<>>, x.primero)
    IN IF \E i \in Indices(r.nuevos) : FilasDe(x.evaluacion_id, r.nuevos[i].id_pregunta) # {}
       THEN /\ resp' = Respuesta("responder", HTTP_400_BAD_REQUEST, NULL)
            /\ sesiones' = [sesiones EXCEPT ![s] = Libre]
            /\ UNCHANGED <<usuarios, formularios, preguntas, evaluaciones, resultados, hoy, tokens, azar>>
       ELSE /\ resultados' = r.filas \o r.nuevos
            /\ evaluaciones' = [evaluaciones EXCEPT
                   ![x.evaluacion_id].estado = "En Curso",
                   ![x.evaluacion_id].observaciones_generales = x.request.observaciones_generales]
            /\ resp' = Respuesta("responder", HTTP_200_OK, x.evaluacion_id)
            /\ sesiones' = [sesiones EXCEPT ![s] = Libre]
            /\ UNCHANGED <<usuarios, formularios, preguntas, hoy, tokens, azar>>

\* the commit of responder_evaluacion: the rows the queries found are updated
\* by primary key, the others are inserted
responder_evaluacion_commit(s) ==
    LET x == sesiones[s]
        r == registrar_resultados(x.evaluacion_id, x.request.resultados, resultados, <<>>, x.primero)
    IN /\ resultados' = r.filas \o r.nuevos
       /\ evaluaciones' = [evaluaciones EXCEPT
              ![x.evaluacion_id].estado = "En Curso",
              ![x.evaluacion_id].observaciones_generales = x.request.observaciones_generales]
       /\ resp' = Respuesta("responder", HTTP_200_OK, x.evaluacion_id)
       /\ sesiones' = [sesiones EXCEPT ![s] = Libre]
       /\ UNCHANGED <<usuarios, formularios, preguntas, hoy, tokens, azar>>

\* POST /evaluaciones/asignar-masiva up to the end of its loop: the checks and,
\* for each selected user, the query for a Pendiente / En Curso evaluation
asignar_evaluacion_masiva_consultas(s, request, current_user) ==
    IF ~require_role(current_user, {"Administrador", "RRHH"})
    THEN Falla("asignar_masiva", HTTP_403_FORBIDDEN)
    ELSE IF request.id_formulario \notin Indices(formularios)
    THEN Falla("asignar_masiva", HTTP_404_NOT_FOUND)
    ELSE IF formularios[request.id_formulario].estado # "Activo"
    THEN Falla("asignar_masiva", HTTP_400_BAD_REQUEST)
    ELSE LET seleccion == {u \in Indices(usuarios) : /\ usuarios[u].existe
                                                     /\ usuarios[u].id_rol = request.rol_id
                                                     /\ usuarios[u].estado = "Activo"}
             evaluaciones_existentes == {u \in seleccion : evaluacion_existente(request, u) # {}}
         IN IF seleccion = {}
            THEN Falla("asignar_masiva", HTTP_404_NOT_FOUND)
            ELSE /\ sesiones' = [sesiones EXCEPT ![s] =
                        [op |-> "asignar_masiva", request |-> request, usuarios |-> seleccion,
                         evaluaciones_creadas |-> seleccion \ evaluaciones_existentes,
                         evaluaciones_existentes |-> evaluaciones_existentes,
                         fecha_inicio |-> hoy]]
                 /\ UNCHANGED <<usuarios, formularios, preguntas, evaluaciones, resultados,
                                hoy, tokens, azar, resp>>

\* the commit of asignar_evaluacion_masiva: the evaluations added in the loop
asignar_evaluacion_masiva_commit(s) ==
    LET x == sesiones[s]
        orden == EnOrden(x.evaluaciones_creadas)
    IN /\ evaluaciones' = evaluaciones \o
              [i \in Indices(orden) |->
                  Evaluacion(x.request.id_formulario, orden[i], orden[i],
                             x.request.tipo_evaluacion, x.request.periodo,
                             x.fecha_inicio, x.fecha_inicio + x.request.dias_plazo)]
       /\ resp' = [op |-> "asignar_masiva", status |-> HTTP_200_OK,
                   n |-> Cardinality(x.usuarios),
                   creadas |-> x.evaluaciones_creadas,
                   existentes |-> x.evaluaciones_existentes]
       /\ sesiones' = [sesiones EXCEPT ![s] = Libre]
       /\ UNCHANGED <<usuarios, formularios, preguntas, resultados, hoy, tokens, azar>>

(***************************************************************************)
(* Specification SpecConcurrente: two sessions answering and assigning    *)
(***************************************************************************)
\* one answer per request, so that a request has one query for a result
ResponderRequestsConcurrentes ==
    [resultados : {<<Answer(1, 800)>>, <<Answer(3, 300)>>},
     observaciones_generales : {"obs"}]

\* the Manager role on the active form, on the draft form, a role without users
MasivaRequestsConcurrentes ==
    {MasivaRequest(1, 3, "2025"), MasivaRequest(2, 3, "2025"), MasivaRequest(1, 5, "2025")}

\* an evaluation of an earlier period that user 1 started for user 2
InitConcurrente ==
    /\ usuarios = UsuariosIniciales
    /\ formularios = FormulariosIniciales
    /\ preguntas = PreguntasIniciales
    /\ evaluaciones = << Evaluacion(1, 2, 1, "Manager", "2024", 1, 22) >>
    /\ resultados = <<>>
    /\ hoy = 1
    /\ tokens = {}
    /\ azar = 0
    /\ sesiones = [s \in Sesiones |-> Libre]
    /\ resp = Respuesta("init", HTTP_200_OK, NULL)

ResponderConsultas ==
    \E s \in Sesiones, caller \in Autenticados, evaluacion_id \in 1..(Len(evaluaciones) + 1),
       request \in ResponderRequestsConcurrentes :
        /\ sesiones[s] = Libre
        /\ responder_evaluacion_consultas(s, evaluacion_id, request, caller)

ResponderCommit ==
    \E s \in Sesiones :
        /\ sesiones[s].op = "responder"
        /\ responder_evaluacion_commit(s)
        /\ Len(resultados') <= MaxResultados

AsignarConsultas ==
    \E s \in Sesiones, caller \in Autenticados, request \in MasivaRequestsConcurrentes :
        /\ sesiones[s] = Libre
        /\ asignar_evaluacion_masiva_consultas(s, request, caller)

AsignarCommit ==
    \E s \in Sesiones :
        /\ sesiones[s].op = "asignar_masiva"
        /\ asignar_evaluacion_masiva_commit(s)
        /\ Len(evaluaciones') <= MaxAsignadas + 1

NextConcurrente ==
    \/ ResponderConsultas
    \/ ResponderCommit
    \/ AsignarConsultas
    \/ AsignarCommit

SpecConcurrente == InitConcurrente /\ [][NextConcurrente]_vars

(***************************************************************************)
(* Properties of concurrent requests                                      *)
(***************************************************************************)
\* the Pendiente evaluations of a table for a request's form and period and a user
PendientesEn(tabla, request, u) ==
    {e \in Indices(tabla) : /\ tabla[e].id_formulario = request.id_formulario
                            /\ tabla[e].id_evaluado = u
                            /\ tabla[e].periodo = request.periodo
                            /\ tabla[e].estado = "Pendiente"}

\* C24: the check-then-insert sequences are protected by no lock and no
\* uniqueness constraint: the commit of a responder_evaluacion request inserts a
\* Result for every pair its own query found empty, and the commit of an
\* asignar_evaluacion_masiva request inserts a Pendiente evaluation for every
\* user its own query found without one, whatever other sessions committed in
\* between; so two interleaved requests end with two Result rows for one
\* (evaluation, question) pair and with two Pendiente evaluations for one user
C24_SinProteccion ==
    [][\A s \in Sesiones :
          /\ (sesiones[s].op = "responder" /\ responder_evaluacion_commit(s)) =>
                /\ resp'.status = HTTP_200_OK
                /\ \A i \in Indices(sesiones[s].request.resultados) :
                      LET q == sesiones[s].request.resultados[i].id_pregunta
                          e == sesiones[s].evaluacion_id
                      IN Cardinality(FilasEn(resultados', e, q)) =
                            Cardinality(FilasEn(resultados, e, q)) +
                            (IF sesiones[s].primero[q] = NULL THEN 1 ELSE 0)
          /\ (sesiones[s].op = "asignar_masiva" /\ asignar_evaluacion_masiva_commit(s)) =>
                /\ resp'.status = HTTP_200_OK
                /\ \A u \in sesiones[s].evaluaciones_creadas :
                      Cardinality(PendientesEn(evaluaciones', sesiones[s].request, u)) =
                         Cardinality(PendientesEn(evaluaciones, sesiones[s].request, u)) + 1]_vars

\* C24 witness: after interleaved requests, a pair has two Result rows and a
\* user has two Pendiente evaluations of the same form and period
C24_Witness ==
    /\ \E e \in Indices(evaluaciones), q \in Indices(preguntas) :
          Cardinality(FilasEn(resultados, e, q)) = 2
    /\ \E request \in MasivaRequestsConcurrentes, u \in Indices(usuarios) :
          Cardinality(PendientesEn(evaluaciones, request, u)) = 2
    /\ \A s \in Sesiones : sesiones[s] = Libre

(***************************************************************************)
(* Specification SpecCongelada: the life cycle of an evaluation next to   *)
(* the edition of its form's questions and the change of the date         *)
(***************************************************************************)
MaxDias == 2

\* services.update_pregunta(db, pregunta_id, pregunta_update); update_data is
\* pregunta_update.model_dump(exclude_unset=True)
update_pregunta(pregunta_id, update_data) ==
    IF get_pregunta_by_id(pregunta_id) = NULL
    THEN Falla("update_pregunta", HTTP_404_NOT_FOUND)
    ELSE /\ preguntas' = [preguntas EXCEPT ![pregunta_id] =
                [field \in DOMAIN @ |-> IF field \in DOMAIN update_data
                                        THEN update_data[field] ELSE @[field]]]
         /\ resp' = Respuesta("update_pregunta", HTTP_200_OK, pregunta_id)
         /\ UNCHANGED <<usuarios, formularios, evaluaciones, resultados, hoy, tokens, azar, sesiones>>

\* PUT /formularios/preguntas/{pregunta_id}
actualizar_pregunta(pregunta_id, pregunta_update, current_user) ==
    IF ~require_role(current_user, {"Administrador", "RRHH"})
    THEN Falla("update_pregunta", HTTP_403_FORBIDDEN)
    ELSE update_pregunta(pregunta_id, pregunta_update)

PreguntaUpdates == {[peso |-> 100], [peso |-> 300]}

\* the questions of the active form answered 8.00 and 3.00
ResponderRequestsCongelada ==
    [resultados : {<<Answer(1, 800), Answer(2, 300)>>}, observaciones_generales : {"obs"}]

IniciarC ==
    \E caller \in Autenticados, request \in {IniciarRequest(1, 2)} :
        /\ router_iniciar_evaluacion(request, caller)
        /\ Len(evaluaciones') <= MaxEvaluaciones

ResponderC ==
    \E caller \in Autenticados, evaluacion_id \in 1..(Len(evaluaciones) + 1),
       request \in ResponderRequestsCongelada :
        /\ responder_evaluacion(evaluacion_id, request, caller)
        /\ Len(resultados') <= MaxResultados

ActualizarPregunta ==
    \E caller \in Autenticados, pregunta_id \in 1..(Len(preguntas) + 1), pregunta_update \in PreguntaUpdates :
        actualizar_pregunta(pregunta_id, pregunta_update, caller)

\* date.today() moves on
PasaElDia ==
    /\ hoy < MaxDias
    /\ hoy' = hoy + 1
    /\ UNCHANGED <<usuarios, formularios, preguntas, evaluaciones, resultados, tokens, azar, sesiones, resp>>

NextCongelada ==
    \/ IniciarC
    \/ ResponderC
    \/ Completar
    \/ Cancelar
    \/ ActualizarResultado
    \/ ActualizarPregunta
    \/ PasaElDia

SpecCongelada == Init /\ [][NextCongelada]_vars

\* C25: the score of a completed evaluation is frozen: once estado is
\* Completada, no operation (responder, completar, cancelar, update_resultado,
\* update_pregunta) changes the evaluation's puntaje_total or fecha_fin
C25_PuntajeCongelado ==
    [][\A e \in Indices(evaluaciones) :
          evaluaciones[e].estado = "Completada" =>
              /\ evaluaciones'[e].puntaje_total = evaluaciones[e].puntaje_total
              /\ evaluaciones'[e].fecha_fin = evaluaciones[e].fecha_fin]_vars

(***************************************************************************)
(* Properties of the stamp of the last access                             *)
(***************************************************************************)
\* C26: a login attempt that does not issue a token (wrong password, unknown
\* email, account not Activo, email not confirmed) leaves every user record
\* unchanged; ultimo_acceso is stamped only by a login that succeeds
C26_SelloSoloAlEntrar ==
    [][/\ (resp'.op = "login" /\ resp'.status # HTTP_200_OK) =>
             \A credentials \in LoginRequests : login(credentials) => usuarios' = usuarios
       /\ \A u \in Indices(usuarios) :
             usuarios'[u].ultimo_acceso # usuarios[u].ultimo_acceso =>
                 resp'.op = "login" /\ resp'.status = HTTP_200_OK]_vars

(***************************************************************************)
(* Specification SpecPerfil: logins and profile updates of three users    *)
(***************************************************************************)
\* an Administrador, a Colaborador and a Manager, all confirmed
UsuariosPerfil ==
    << Usuario("a@x", "pa", 1, "Activo", TRUE, NULL),
       Usuario("b@x", "pb", 4, "Activo", TRUE, NULL),
       Usuario("c@x", "pc", 3, "Activo", TRUE, NULL) >>

LoginRequestsPerfil == [correo : {"a@x", "b@x"}, password : {"pa", "pb"}]

\* a change of role, of estado, of a field that carries no privilege
UsuarioUpdatesPerfil ==
    {[id_rol |-> 1], [id_rol |-> 4], [estado |-> "Inactivo"], [estado |-> "Activo"],
     [manager_id |-> 1]}

InitPerfil ==
    /\ usuarios = UsuariosPerfil
    /\ formularios = FormulariosIniciales
    /\ preguntas = PreguntasIniciales
    /\ evaluaciones = <<>>
    /\ resultados = <<>>
    /\ hoy = 1
    /\ tokens = {}
    /\ azar = 0
    /\ sesiones = <<>>
    /\ resp = Respuesta("init", HTTP_200_OK, NULL)

LoginP == \E credentials \in LoginRequestsPerfil : login(credentials)

UpdateUserP ==
    \E token \in TokensPresentados, user_id \in 1..(Len(usuarios) + 1), user_data \in UsuarioUpdatesPerfil :
        update_user(token, user_id, user_data)

NextPerfil ==
    \/ LoginP
    \/ UpdateUserP

SpecPerfil == InitPerfil /\ [][NextPerfil]_vars

(***************************************************************************)
(* Properties of the profile update                                       *)
(***************************************************************************)
\* C27: no privilege escalation through profile update: a PUT /usuarios/{id}
\* request of a caller whose role is not Administrador changes id_rol and
\* estado of no user
C27_SinEscalada ==
    [][resp'.op = "update_user" =>
        \A token \in TokensPresentados, user_id \in Indices(usuarios), user_data \in UsuarioUpdatesPerfil :
            (/\ get_current_user(token).status = HTTP_200_OK
             /\ nombre_rol(usuarios[get_current_user(token).usuario].id_rol) # "Administrador"
             /\ update_user(token, user_id, user_data)) =>
                \A u \in Indices(usuarios) :
                    /\ usuarios'[u].id_rol = usuarios[u].id_rol
                    /\ usuarios'[u].estado = usuarios[u].estado]_vars

(***************************************************************************)
(* Properties of the column shared by confirmation and password reset     *)
(***************************************************************************)
\* C28: the confirmation and password-reset flows do not interfere:
\* confirmar-correo does not accept a 6-digit code written by
\* request-password-reset, so correo_confirmado becomes true only by a token of
\* register or reenviar-confirmacion; and request-password-reset for a
\* not-yet-confirmed account leaves its confirmation token in place
C28_FlujosSeparados ==
    [][/\ resp'.op = "confirmar_correo" =>
             \A codigo \in Codigos :
                 confirmar_correo(codigo) =>
                     /\ resp'.status = HTTP_400_BAD_REQUEST
                     /\ usuarios' = usuarios
       /\ resp'.op = "request_password_reset" =>
             \A u \in Indices(usuarios) :
                 ~usuarios[u].correo_confirmado =>
                     usuarios'[u].token_confirmacion = usuarios[u].token_confirmacion]_vars

(***************************************************************************)
(* Distribution of scores (reportes/services.py,                          *)
(* get_distribucion_calificaciones).  func.avg is compared exactly: the   *)
(* average sum/count stands on one side of a limit L as sum stands to     *)
(* L * count.                                                             *)
(***************************************************************************)
\* the rows of the join of evaluaciones and resultados that pass the filters
FilasDistribucion(periodo) ==
    {r \in Indices(resultados) :
        /\ evaluaciones[resultados[r].id_evaluacion].estado = "Completada"
        /\ resultados[r].puntaje # NULL
        /\ (periodo # NONE /\ periodo # "") =>
               evaluaciones[resultados[r].id_evaluacion].periodo = periodo}

RECURSIVE SumaPuntajes(_)
SumaPuntajes(S) ==
    IF S = {} THEN 0
    ELSE LET r == CHOOSE x \in S : TRUE IN resultados[r].puntaje + SumaPuntajes(S \ {r})

\* the subquery grouped by id_evaluado: sum and count of the scores of each group
promedio_por_colaborador(periodo) ==
    LET filas == FilasDistribucion(periodo)
        grupos == {evaluaciones[resultados[r].id_evaluacion].id_evaluado : r \in filas}
    IN [u \in grupos |->
           LET suyas == {r \in filas : evaluaciones[resultados[r].id_evaluacion].id_evaluado = u}
           IN [suma |-> SumaPuntajes(suyas), cantidad |-> Cardinality(suyas)]]

\* the counts "1.0-2.0", "2.1-3.0", "3.1-4.0" and "4.1-5.0"
get_distribucion_calificaciones(periodo) ==
    LET subq == promedio_por_colaborador(periodo)
    IN [rango_1 |-> Cardinality({u \in DOMAIN subq : /\ subq[u].suma >= 0
                                                     /\ subq[u].suma <= 200 * subq[u].cantidad}),
        rango_2 |-> Cardinality({u \in DOMAIN subq : /\ subq[u].suma > 200 * subq[u].cantidad
                                                     /\ subq[u].suma <= 300 * subq[u].cantidad}),
        rango_3 |-> Cardinality({u \in DOMAIN subq : /\ subq[u].suma > 300 * subq[u].cantidad
                                                     /\ subq[u].suma <= 400 * subq[u].cantidad}),
        rango_4 |-> Cardinality({u \in DOMAIN subq : /\ subq[u].suma > 400 * subq[u].cantidad
                                                     /\ subq[u].suma <= 500 * subq[u].cantidad})]

\* GET /reportes/distribucion-calificaciones
obtener_distribucion_calificaciones(periodo, current_user) ==
    IF ~require_role(current_user, {"Administrador", "RRHH", "Director"})
    THEN Falla("distribucion", HTTP_403_FORBIDDEN)
    ELSE /\ resp' = [op |-> "distribucion", status |-> HTTP_200_OK, periodo |-> periodo,
                     rangos |-> get_distribucion_calificaciones(periodo)]
         /\ SinCambios

(***************************************************************************)
(* Specification SpecDistribucion: the report over drawn tables           *)
(***************************************************************************)
\* scores in hundredths, inside the accepted range 0.00 .. 10.00
PuntajesDistribucion == {NULL, 0, 200, 250, 500, 800, 1000}

FilasDistribucionIniciales ==
    UNION {[1..k -> {Resultado(e, 1, NONE, p, NONE) : e \in {1, 2}, p \in PuntajesDistribucion}] :
              k \in 0..MaxFilas}

\* two evaluations, of user 2 and of user 2 or 3, each Completada or still En Curso
InitDistribucion ==
    /\ usuarios = UsuariosIniciales
    /\ formularios = FormulariosIniciales
    /\ preguntas = PreguntasIniciales
    /\ resultados \in FilasDistribucionIniciales
    /\ \E u \in {2, 3}, p \in {"2024", "2025"}, s1 \in {"Completada", "En Curso"},
          s2 \in {"Completada", "En Curso"} :
          evaluaciones =
              << [Evaluacion(1, 2, 1, "Manager", "2025", 1, 22) EXCEPT
                     !.estado = s1,
                     !.puntaje_total = IF s1 = "Completada" THEN calcular_puntaje_evaluacion(1) ELSE NULL],
                 [Evaluacion(1, u, 1, "Manager", p, 1, 22) EXCEPT
                     !.estado = s2,
                     !.puntaje_total = IF s2 = "Completada" THEN calcular_puntaje_evaluacion(2) ELSE NULL] >>
    /\ hoy = 1
    /\ tokens = {}
    /\ azar = 0
    /\ sesiones = <<>>
    /\ resp = Respuesta("init", HTTP_200_OK, NULL)

ObtenerDistribucion ==
    \E caller \in Autenticados, periodo \in {NONE, "2025"} :
        obtener_distribucion_calificaciones(periodo, caller)

NextDistribucion == ObtenerDistribucion

SpecDistribucion == InitDistribucion /\ [][NextDistribucion]_vars

(***************************************************************************)
(* Properties of the distribution of scores                               *)
(***************************************************************************)
\* the evaluated users with a scored Result in a Completada evaluation of the period
EvaluadosPuntuados(periodo) ==
    {u \in Indices(usuarios) :
        \E r \in Indices(resultados) :
            LET e == evaluaciones[resultados[r].id_evaluacion]
            IN /\ e.id_evaluado = u
               /\ e.estado = "Completada"
               /\ resultados[r].puntaje # NULL
               /\ periodo = NONE \/ e.periodo = periodo}

\* C29: the score distribution partitions the evaluated users: with scores in
\* the accepted range 0..10, the four counts of get_distribucion_calificaciones
\* sum to the number of evaluated users that have a scored Result in a
\* Completada evaluation
C29_ParticionDeEvaluados ==
    resp.op = "distribucion" /\ resp.status = HTTP_200_OK =>
        resp.rangos.rango_1 + resp.rangos.rango_2 + resp.rangos.rango_3 + resp.rangos.rango_4
            = Cardinality(EvaluadosPuntuados(resp.periodo))

(***************************************************************************)
(* Specification SpecArchivo: forms created, updated, activated and       *)
(* archived while evaluations are started and assigned                    *)
(***************************************************************************)
MaxFormulariosArchivo == 3

\* services.activar_formulario(db, formulario_id)
activar_formulario(formulario_id) ==
    IF get_formulario_by_id(formulario_id) = NULL
    THEN Falla("activar_formulario", HTTP_404_NOT_FOUND)
    ELSE /\ formularios' = [formularios EXCEPT ![formulario_id].estado = "Activo"]
         /\ resp' = Respuesta("activar_formulario", HTTP_200_OK, formulario_id)
         /\ UNCHANGED <<usuarios, preguntas, evaluaciones, resultados, hoy, tokens, azar, sesiones>>

\* POST /formularios/{formulario_id}/activar
router_activar_formulario(formulario_id, current_user) ==
    IF ~require_role(current_user, {"Administrador", "RRHH"})
    THEN Falla("activar_formulario", HTTP_403_FORBIDDEN)
    ELSE activar_formulario(formulario_id)

\* updates that set the scalar field estado
FormularioUpdatesEstado == {[estado |-> "Archivado"], [estado |-> "Borrador"]}

FormularioCreatesArchivo == [rol_aplicable : {4}, preguntas : {<<>>}]

\* the active form and the draft form
IniciarRequestsArchivo == {IniciarRequest(1, 2), IniciarRequest(2, 2)}

MasivaRequestsArchivo == {MasivaRequest(1, 3, "2025"), MasivaRequest(2, 3, "2025")}

CrearFormularioA ==
    \E caller \in Autenticados, formulario \in FormularioCreatesArchivo, integridad \in BOOLEAN :
        /\ crear_formulario(formulario, caller, integridad)
        /\ Len(formularios') <= MaxFormulariosArchivo

ActualizarFormularioA ==
    \E caller \in Autenticados, formulario_id \in 1..(Len(formularios) + 1),
       formulario_update \in FormularioUpdatesEstado, integridad \in BOOLEAN :
        actualizar_formulario(formulario_id, formulario_update, caller, integridad)

ActivarFormulario ==
    \E caller \in Autenticados, formulario_id \in 1..(Len(formularios) + 1) :
        router_activar_formulario(formulario_id, caller)

EliminarFormularioA ==
    \E caller \in Autenticados, formulario_id \in 1..(Len(formularios) + 1) :
        eliminar_formulario(formulario_id, caller)

IniciarA ==
    \E caller \in Autenticados, request \in IniciarRequestsArchivo :
        /\ router_iniciar_evaluacion(request, caller)
        /\ Len(evaluaciones') <= MaxAsignadas

AsignarMasivaA ==
    \E caller \in Autenticados, request \in MasivaRequestsArchivo :
        /\ router_asignar_evaluacion_masiva(request, caller)
        /\ Len(evaluaciones') <= MaxAsignadas

NextArchivo ==
    \/ CrearFormularioA
    \/ ActualizarFormularioA
    \/ ActivarFormulario
    \/ EliminarFormularioA
    \/ IniciarA
    \/ AsignarMasivaA

SpecArchivo == InitFormularios /\ [][NextArchivo]_vars

(***************************************************************************)
(* Properties of archived forms                                           *)
(***************************************************************************)
\* C30: a form whose estado is Archivado is referenced by no evaluation, after
\* every create, update, activate and delete of a form and every iniciar and
\* mass assignment; and an evaluation is only created against a form that is
\* Activo at that moment
C30_ArchivadoSinEvaluaciones ==
    [][/\ \A f \in Indices(formularios') :
             formularios'[f].estado = "Archivado" =>
                 \A e \in Indices(evaluaciones') : evaluaciones'[e].id_formulario # f
       /\ \A e \in Indices(evaluaciones') \ Indices(evaluaciones) :
             formularios[evaluaciones'[e].id_formulario].estado = "Activo"]_vars

====
